---- MODULE Spec2Model ----
(***************************************************************************)
(* Model of rancher-fip-manager-webhook.                                   *)
(*                                                                         *)
(* Part 1: the admission validation engine (package service):             *)
(*   validateFloatingIP, with the net / bytes library calls it makes      *)
(*   (net.ParseIP, net.ParseCIDR, IPNet.Contains, IP.To4, bytes.Compare)  *)
(*   computed on the literal strings, byte by byte.                        *)
(***************************************************************************)
EXTENDS Integers, Sequences, FiniteSets, TLC

(***************************************************************************)
(* Bounds of the model.                                                    *)
(***************************************************************************)
\* longest exclude list of a pool
MaxExclude == 1
\* largest per-pool quota of a project
MaxQuota == 1
\* largest per-pool used counter of a project
MaxUsed == 1
\* largest available counter of a pool
MaxAvail == 1
\* calls of validateFloatingIP under way at the same time
NumHandlers == 2

(***************************************************************************)
(* Strings as the code sees them: bytes, indexed from 0 in Go and from 1   *)
(* here.                                                                   *)
(***************************************************************************)
CharAt(s, i) == SubSeq(s, i, i)

\* s[i:] of Go with i counted from 1: the suffix that starts at character i
From(s, i) == SubSeq(s, i, Len(s))

HasChar(s, c) == \E i \in 1..Len(s) : CharAt(s, i) = c

\* position (from 1) of the first c in s; 0 when there is none
IndexByte(s, c) ==
    IF HasChar(s, c)
    THEN CHOOSE i \in 1..Len(s) :
            CharAt(s, i) = c /\ \A j \in 1..(i - 1) : CharAt(s, j) # c
    ELSE 0

\* strings.Contains
StrContains(s, sub) ==
    \E i \in 1..(Len(s) - Len(sub) + 1) : SubSeq(s, i, i + Len(sub) - 1) = sub

\* strings.HasSuffix
HasSuffix(s, suf) ==
    Len(s) >= Len(suf) /\ SubSeq(s, Len(s) - Len(suf) + 1, Len(s)) = suf

IsDigit(c) == HasChar("0123456789", c)

DigitVal(c) == IndexByte("0123456789", c) - 1

IsHex(c) == HasChar("0123456789abcdefABCDEF", c)

HexVal(c) ==
    IF IsDigit(c) THEN DigitVal(c)
    ELSE IF HasChar("abcdef", c) THEN IndexByte("abcdef", c) + 9
    ELSE IndexByte("ABCDEF", c) + 9

(***************************************************************************)
(* net.IP: a byte sequence of length 4 or 16; nil is the empty sequence.   *)
(***************************************************************************)
IPv4len == 4
IPv6len == 16
NilIP == << >>

Zeros(n) == [k \in 1..n |-> 0]

\* netip.parseIPv4Fields: the loop over the characters of s.
\* i: next character, val: octet so far, pos: octets stored, digLen: digits
\* of the current octet, fields: the octets stored.
RECURSIVE parseIPv4Loop(_, _, _, _, _, _)
parseIPv4Loop(s, i, val, pos, digLen, fields) ==
    IF i > Len(s)
    THEN IF pos < 3 THEN NilIP ELSE Append(fields, val)
    ELSE LET c == CharAt(s, i) IN
         IF IsDigit(c)
         THEN IF digLen = 1 /\ val = 0 THEN NilIP
              ELSE LET v == val * 10 + DigitVal(c) IN
                   IF v > 255 THEN NilIP
                   ELSE parseIPv4Loop(s, i + 1, v, pos, digLen + 1, fields)
         ELSE IF c = "."
         THEN IF i = 1 \/ i = Len(s) \/ CharAt(s, i - 1) = "." THEN NilIP
              ELSE IF pos = 3 THEN NilIP
              ELSE parseIPv4Loop(s, i + 1, 0, pos + 1, 0, Append(fields, val))
         ELSE NilIP

\* the four octets of a dotted-decimal literal, or nil
parseIPv4Fields(s) == parseIPv4Loop(s, 1, 0, 0, 0, << >>)

v4InV6Prefix == Zeros(10) \o <<255, 255>>

\* netip.parseIPv4 followed by Addr.As16: the IPv4-mapped 16-byte form
as16(f) == IF f = NilIP THEN NilIP ELSE v4InV6Prefix \o f

parseIPv4(s) == as16(parseIPv4Fields(s))

\* number of leading hex digits of s
RECURSIVE hexRun(_, _)
hexRun(s, off) ==
    IF off < Len(s) /\ IsHex(CharAt(s, off + 1)) THEN hexRun(s, off + 1) ELSE off

RECURSIVE hexAcc(_, _, _)
hexAcc(s, n, acc) ==
    IF n = 0 THEN acc ELSE hexAcc(From(s, 2), n - 1, acc * 16 + HexVal(CharAt(s, 1)))

\* the embedded IPv4 tail f of an IPv6 literal ends the loop
v4Tail(f, fail, ip, ellipsis) ==
    IF f = NilIP THEN fail
    ELSE [ok |-> TRUE, s |-> "", ip |-> ip \o f, ellipsis |-> ellipsis]

\* netip.parseIPv6: the loop over the 16-bit groups.
\* s: what is left to read, ip: the bytes stored (i = Len(ip)), ellipsis:
\* byte index of "::" or -1. Returns the record the code after the loop needs.
RECURSIVE parseIPv6Loop(_, _, _)
parseIPv6Loop(s, ip, ellipsis) ==
    IF Len(ip) >= IPv6len THEN [ok |-> TRUE, s |-> s, ip |-> ip, ellipsis |-> ellipsis]
    ELSE
    LET off == hexRun(s, 0)
        fail == [ok |-> FALSE, s |-> s, ip |-> ip, ellipsis |-> ellipsis]
    IN
    IF off > 4 THEN fail
    ELSE IF off = 0 THEN fail
    ELSE IF off < Len(s) /\ CharAt(s, off + 1) = "."
    THEN IF ellipsis < 0 /\ Len(ip) # 12 THEN fail
         ELSE IF Len(ip) + 4 > IPv6len THEN fail
         ELSE v4Tail(parseIPv4Fields(s), fail, ip, ellipsis)
    ELSE
    LET acc == hexAcc(s, off, 0)
        ip2 == ip \o <<acc \div 256, acc % 256>>
        s2  == From(s, off + 1)
    IN
    IF Len(s2) = 0 THEN [ok |-> TRUE, s |-> s2, ip |-> ip2, ellipsis |-> ellipsis]
    ELSE IF CharAt(s2, 1) # ":" THEN fail
    ELSE IF Len(s2) = 1 THEN fail
    ELSE LET s3 == From(s2, 2) IN
         IF CharAt(s3, 1) = ":"
         THEN IF ellipsis >= 0 THEN fail
              ELSE LET s4 == From(s3, 2) IN
                   IF Len(s4) = 0
                   THEN [ok |-> TRUE, s |-> s4, ip |-> ip2, ellipsis |-> Len(ip2)]
                   ELSE parseIPv6Loop(s4, ip2, Len(ip2))
         ELSE parseIPv6Loop(s3, ip2, ellipsis)

\* netip.parseIPv6 after the loop, on the loop's result r: the input must
\* be used up, and an ellipsis is expanded
expandEllipsis(r) ==
    IF ~r.ok THEN NilIP
    ELSE IF Len(r.s) # 0 THEN NilIP
    ELSE IF Len(r.ip) < IPv6len
    THEN IF r.ellipsis < 0 THEN NilIP
         ELSE SubSeq(r.ip, 1, r.ellipsis) \o Zeros(IPv6len - Len(r.ip))
                \o SubSeq(r.ip, r.ellipsis + 1, Len(r.ip))
    ELSE IF r.ellipsis >= 0 THEN NilIP
    ELSE r.ip

\* netip.parseIPv6 (a literal with a zone is rejected by net.ParseIP: the
\* '%' is no hex digit and no colon)
parseIPv6(s) ==
    LET lead == Len(s) >= 2 /\ CharAt(s, 1) = ":" /\ CharAt(s, 2) = ":"
        s1   == IF lead THEN From(s, 3) ELSE s
        e1   == IF lead THEN 0 ELSE -1
    IN
    IF lead /\ Len(s1) = 0 THEN Zeros(IPv6len)
    ELSE expandEllipsis(parseIPv6Loop(s1, << >>, e1))

\* netip.ParseAddr scans for the first of '.', ':' and '%', which decides
\* the parser: "v4", "v6", or "none" (no such character, or a '%' first)
RECURSIVE addrFamily(_, _)
addrFamily(s, i) ==
    IF i > Len(s) THEN "none"
    ELSE IF CharAt(s, i) = "." THEN "v4"
    ELSE IF CharAt(s, i) = ":" THEN "v6"
    ELSE IF CharAt(s, i) = "%" THEN "none"
    ELSE addrFamily(s, i + 1)

\* net.parseIP: netip.ParseAddr then As16; nil when the literal is rejected
parseIP(s) ==
    LET fam == addrFamily(s, 1) IN
    IF fam = "v4" THEN parseIPv4(s)
    ELSE IF fam = "v6" THEN parseIPv6(s)
    ELSE NilIP

\* Addr.BitLen of the parsed literal: 32 for a dotted literal, else 128
BitLen(s) == IF addrFamily(s, 1) = "v4" THEN 32 ELSE 128

\* IP.To4: the 4-byte form of an IPv4 or IPv4-mapped address, else nil
To4(ip) ==
    IF Len(ip) = IPv4len THEN ip
    ELSE IF Len(ip) = IPv6len /\ SubSeq(ip, 1, 12) = v4InV6Prefix
    THEN SubSeq(ip, 13, 16)
    ELSE NilIP

\* bytes.Compare: -1, 0 or 1, lexicographic, a proper prefix being smaller
RECURSIVE Compare(_, _)
Compare(a, b) ==
    IF Len(a) = 0 /\ Len(b) = 0 THEN 0
    ELSE IF Len(a) = 0 THEN -1
    ELSE IF Len(b) = 0 THEN 1
    ELSE IF a[1] < b[1] THEN -1
    ELSE IF a[1] > b[1] THEN 1
    ELSE Compare(Tail(a), Tail(b))

\* net.dtoi on the whole string: the decimal value, or -1 when the string is
\* empty or holds a character that is no digit
RECURSIVE dtoi(_, _, _)
dtoi(s, i, n) ==
    IF i > Len(s) THEN (IF i = 1 THEN -1 ELSE n)
    ELSE IF ~IsDigit(CharAt(s, i)) THEN -1
    ELSE IF n * 10 + DigitVal(CharAt(s, i)) > 16777215 THEN -1
    ELSE dtoi(s, i + 1, n * 10 + DigitVal(CharAt(s, i)))

Pow2(n) == IF n = 0 THEN 1 ELSE IF n = 1 THEN 2 ELSE IF n = 2 THEN 4
           ELSE IF n = 3 THEN 8 ELSE IF n = 4 THEN 16 ELSE IF n = 5 THEN 32
           ELSE IF n = 6 THEN 64 ELSE IF n = 7 THEN 128 ELSE 256

\* net.CIDRMask(ones, bits): ones leading one-bits in bits/8 bytes
CIDRMask(ones, bits) ==
    [k \in 1..(bits \div 8) |->
        IF ones >= 8 * k THEN 255
        ELSE IF ones <= 8 * (k - 1) THEN 0
        ELSE 256 - Pow2(8 * k - ones)]

\* a & m for a mask byte m (leading one-bits only)
AndMask(a, m) == a - (a % (256 - m))

\* IP.Mask(mask)
Mask(ip, mask) ==
    LET mask2 == IF Len(mask) = IPv6len /\ Len(ip) = IPv4len
                    /\ SubSeq(mask, 1, 12) = [k \in 1..12 |-> 255]
                 THEN SubSeq(mask, 13, 16) ELSE mask
        ip2   == IF Len(mask2) = IPv4len /\ Len(ip) = IPv6len
                    /\ SubSeq(ip, 1, 12) = v4InV6Prefix
                 THEN SubSeq(ip, 13, 16) ELSE ip
    IN
    IF Len(ip2) # Len(mask2) THEN NilIP
    ELSE [k \in 1..Len(ip2) |-> AndMask(ip2[k], mask2[k])]

\* net.ParseCIDR after the split at '/': addr16 the parsed address, n the
\* prefix length (dtoi), bits the address' bit length
ipNet(addr16, n, bits, bad) ==
    IF addr16 = NilIP THEN bad
    ELSE IF n < 0 \/ n > bits THEN bad
    ELSE [ok |-> TRUE, IP |-> Mask(addr16, CIDRMask(n, bits)), Mask |-> CIDRMask(n, bits)]

\* net.ParseCIDR: [ok, IP (network number), Mask]; ok = FALSE is the error
ParseCIDR(s) ==
    LET i    == IndexByte(s, "/")
        bad  == [ok |-> FALSE, IP |-> NilIP, Mask |-> NilIP]
    IN
    IF i = 0 THEN bad
    ELSE
    ipNet(parseIP(SubSeq(s, 1, i - 1)), dtoi(From(s, i + 1), 1, 0),
          BitLen(SubSeq(s, 1, i - 1)), bad)

\* IPNet.Contains, with net.networkNumberAndMask inlined
Contains(n, ip) ==
    LET nip == IF To4(n.IP) # NilIP THEN To4(n.IP) ELSE n.IP
        m   == IF Len(n.Mask) = IPv6len /\ Len(nip) = IPv4len
               THEN SubSeq(n.Mask, 13, 16) ELSE n.Mask
        nnOk == ~(Len(n.Mask) = IPv4len /\ Len(nip) # IPv4len)
        x   == IF To4(ip) # NilIP THEN To4(ip) ELSE ip
    IN
    /\ nnOk
    /\ Len(x) = Len(nip)
    /\ \A k \in 1..Len(x) : AndMask(nip[k], m[k]) = AndMask(x[k], m[k])

(***************************************************************************)
(* The objects of a validation call.                                       *)
(*                                                                         *)
(* pool and quota hold what the cluster answers to the Get of the          *)
(* request's pool and of the request's project: an error (getErr # ""),    *)
(* an object that does not convert to the typed struct (decodes = FALSE),  *)
(* or the object.  The request names the pool PoolName.                    *)
(***************************************************************************)
PoolName == "test-pool"
ProjectName == "test-project"
ProjectLabel == "rancher.k8s.binbash.org/project-name"

\* literals a request may carry in spec.ipaddr
RequestedIPs ==
    { "192.168.1.9", "192.168.1.10", "192.168.1.101", "192.168.1.200",
      "192.168.1.201", "192.168.2.5", "invalid-ip", "fd00::50",
      "::ffff:192.168.1.101" }

Subnets == { "192.168.1.0/24", "fd00::/64", "invalid-subnet" }
\* "" is a pool whose spec sets no start, resp. no end
StartIPs == { "192.168.1.10", "fd00::10", "" }
EndIPs == { "192.168.1.200", "fd00::ff", "" }
ExcludeIPs == { "192.168.1.101", "192.168.1.200" }
AllocatedIPs == { "192.168.1.101" }
Owner == "default/another-fip"

RECURSIVE SeqsUpTo(_, _)
SeqsUpTo(S, n) ==
    IF n = 0 THEN { << >> }
    ELSE LET shorter == SeqsUpTo(S, n - 1) IN
         shorter \cup { Append(q, x) : q \in shorter, x \in S }

ExcludeLists == SeqsUpTo(ExcludeIPs, MaxExclude)

\* Go maps: functions on a finite set of keys
MapsOn(K, V) == UNION { [D -> V] : D \in SUBSET K }

GetErrors == { "NotFound", "Unavailable" }

\* a FloatingIPPool as converted from the Get answer
PoolObjects ==
    [ getErr : {""}, decodes : {TRUE}, hasIPConfig : {TRUE},
      Subnet : Subnets, Start : StartIPs, End : EndIPs,
      Exclude : ExcludeLists,
      Allocated : MapsOn(AllocatedIPs, {Owner}),
      Available : (-1)..MaxAvail ]

\* the field values of an answer whose fields are never read
NoPool ==
    [ getErr |-> "", decodes |-> TRUE, hasIPConfig |-> FALSE,
      Subnet |-> "", Start |-> "", End |-> "", Exclude |-> << >>,
      Allocated |-> << >>, Available |-> 0 ]

PoolAnswers ==
    PoolObjects
    \cup { [NoPool EXCEPT !.Available = a] : a \in {0, MaxAvail} }
    \cup { [NoPool EXCEPT !.getErr = e] : e \in GetErrors }
    \cup { [NoPool EXCEPT !.decodes = FALSE] }

\* a FloatingIPProjectQuota as converted from the Get answer:
\* spec.floatingIPQuota and status.floatingIPs[..].used, keyed by pool name
QuotaObjects ==
    [ getErr : {""}, decodes : {TRUE},
      FloatingIPQuota : MapsOn({PoolName}, 0..MaxQuota),
      Used : MapsOn({PoolName}, 0..MaxUsed) ]

NoQuota ==
    [ getErr |-> "", decodes |-> TRUE, FloatingIPQuota |-> << >>, Used |-> << >> ]

QuotaAnswers ==
    QuotaObjects
    \cup { [NoQuota EXCEPT !.getErr = e] : e \in GetErrors }
    \cup { [NoQuota EXCEPT !.decodes = FALSE] }

\* a FloatingIP under validation: spec.ipaddr is a *string (hasIPAddr = FALSE
\* is nil), project is the value of the project-name label ("" when the
\* label is missing: a Go map read of a missing key)
Requests ==
    [ hasIPAddr : {TRUE}, IPAddr : RequestedIPs, project : {ProjectName, ""} ]
    \cup [ hasIPAddr : {FALSE}, IPAddr : {""}, project : {ProjectName, ""} ]

(***************************************************************************)
(* The FloatingIPPool objects submitted for validation                     *)
(* (validateFloatingIPPool reads only spec.ipConfig).                      *)
(***************************************************************************)
MaxPoolExclude == 2

PoolStartIPs ==
    { "192.168.1.10", "192.168.1.15", "192.168.1.20", "192.168.2.10",
      "invalid-ip", "fd00::10" }
PoolEndIPs ==
    { "192.168.1.10", "192.168.1.15", "192.168.1.20", "192.168.2.20",
      "invalid-ip", "fd00::ff" }
PoolExcludeIPs ==
    { "192.168.1.15", "192.168.1.5", "192.168.1.25", "192.168.2.15",
      "invalid-ip", "fd00::50" }

PoolExcludeLists == SeqsUpTo(PoolExcludeIPs, MaxPoolExclude)

\* spec.ipConfig is a pointer: hasIPConfig = FALSE is the nil pointer
NilIPConfigPool ==
    [hasIPConfig |-> FALSE, Subnet |-> "", Start |-> "", End |-> "", Exclude |-> << >>]

FipPools ==
    [hasIPConfig : {TRUE}, Subnet : Subnets, Start : PoolStartIPs,
     End : PoolEndIPs, Exclude : PoolExcludeLists]
    \cup {NilIPConfigPool}

(***************************************************************************)
(* The parsed form of every literal of the model, computed once.           *)
(***************************************************************************)
IPLiterals ==
    RequestedIPs \cup StartIPs \cup EndIPs \cup ExcludeIPs
    \cup PoolStartIPs \cup PoolEndIPs \cup PoolExcludeIPs

ParsedIPs == [s \in IPLiterals |-> parseIP(s)]

\* "" is the subnet of a pool object without IP configuration
ParsedCIDRs == [s \in Subnets \cup {""} |-> ParseCIDR(s)]

\* net.ParseIP
ParseIP(s) == ParsedIPs[s]

\* net.ParseCIDR, the *IPNet and the error
ParseSubnet(s) == ParsedCIDRs[s]

(***************************************************************************)
(* Admission responses.                                                    *)
(***************************************************************************)
Allow == [kind |-> "response", Allowed |-> TRUE, Message |-> ""]
Deny(msg) == [kind |-> "response", Allowed |-> FALSE, Message |-> msg]
\* a nil-pointer dereference: the call returns no response
Panic == [kind |-> "panic", Allowed |-> FALSE, Message |-> ""]
\* a group of checks found nothing to deny
Pass == [kind |-> "pass", Allowed |-> FALSE, Message |-> ""]
NoResponse == [kind |-> "none", Allowed |-> FALSE, Message |-> ""]
NoRequest == [hasIPAddr |-> FALSE, IPAddr |-> "", project |-> "-"]

MsgPoolNotExist == "the specified floatingippool " \o PoolName \o " does not exist"
MsgPoolConvert == "internal server error: failed to process floatingippool"
MsgInvalidIP(ip) == "invalid IP address format: " \o ip
MsgBadSubnet == "internal server error: invalid subnet configuration in floatingippool"
\* faulty variant: the deny names the pool instead of the subnet
MsgNotInSubnet_NoSubnet(ip, subnet) ==
    "requested IP " \o ip \o " is not in the subnet range of " \o PoolName

MsgNotInSubnet(ip, subnet) ==
    "requested IP " \o ip \o " is not in the subnet range " \o subnet
MsgBadStart ==
    "internal server error: invalid start ip configuration in floatingippool " \o PoolName
MsgBadEnd ==
    "internal server error: invalid end ip configuration in floatingippool " \o PoolName
MsgNotInRange(ip, start, end) ==
    "requested IP " \o ip \o " is not in the pool range [" \o start \o ", " \o end \o "]"
MsgExcluded(ip) == "requested IP " \o ip \o " is in the exclude list"
MsgAllocated(ip) == "requested IP " \o ip \o " is already allocated"
MsgNoAvailable == "no available IPs in floatingippool " \o PoolName
MsgQuotaGet(project) == "failed to get floatingipprojectquota for project " \o project
MsgQuotaConvert == "internal server error: failed to process floatingipprojectquota"
MsgNoQuota(project) ==
    "no quota defined for floatingippool " \o PoolName \o " in project " \o project
MsgQuotaExceeded(project, quota, usage) ==
    "quota exceeded for floatingippool " \o PoolName \o " in project " \o project
        \o ". Quota: " \o ToString(quota) \o ", Used: " \o ToString(usage)

(***************************************************************************)
(* validateFloatingIP                                                      *)
(***************************************************************************)

\* faulty variant: the request alone is narrowed to its 4-byte form
rangeOperands_Mixed(requestedIP, startIP, endIP) ==
    IF To4(requestedIP) # NilIP
    THEN [req |-> To4(requestedIP), start |-> startIP, end |-> endIP]
    ELSE [req |-> requestedIP, start |-> startIP, end |-> endIP]

\* the operands handed to bytes.Compare by the range check: the 4-byte forms
\* when request, start and end all have one, else the slices ParseIP returned
rangeOperands(requestedIP, startIP, endIP) ==
    IF To4(requestedIP) # NilIP /\ To4(startIP) # NilIP /\ To4(endIP) # NilIP
    THEN [req |-> To4(requestedIP), start |-> To4(startIP), end |-> To4(endIP)]
    ELSE [req |-> requestedIP, start |-> startIP, end |-> endIP]

\* faulty variant: the bounds of the range are exclusive
outsideRange_Exclusive(requestedIP, startIP, endIP) ==
    LET o == rangeOperands(requestedIP, startIP, endIP) IN
    Compare(o.req, o.start) <= 0 \/ Compare(o.req, o.end) >= 0

\* the condition of the two "not in the pool range" returns
outsideRange(requestedIP, startIP, endIP) ==
    LET o == rangeOperands(requestedIP, startIP, endIP) IN
    Compare(o.req, o.start) < 0 \/ Compare(o.req, o.end) > 0

\* faulty variant: the loop starts at the second entry
isExcluded_SkipsFirst(ipAddr, exclude) ==
    \E k \in 2..Len(exclude) : ipAddr = exclude[k]

\* the loop over the exclude list: some entry equals the requested literal
isExcluded(ipAddr, exclude) ==
    \E k \in 1..Len(exclude) : ipAddr = exclude[k]

\* the lookup of the requested literal in status.allocated
isAllocated(ipAddr, allocated) == ipAddr \in DOMAIN allocated

\* the checks made when the request names an IP
checkRequestedIP(p, r) ==
    LET requestedIP == ParseIP(r.IPAddr) IN
    IF requestedIP = NilIP THEN Deny(MsgInvalidIP(r.IPAddr))
    ELSE IF ~p.hasIPConfig THEN Panic
    ELSE
    LET subnet == ParseSubnet(p.Subnet) IN
    IF ~subnet.ok THEN Deny(MsgBadSubnet)
    ELSE IF ~Contains(subnet, requestedIP)
    THEN Deny(MsgNotInSubnet(r.IPAddr, p.Subnet))
    ELSE
    LET startIP == ParseIP(p.Start) IN
    IF startIP = NilIP THEN Deny(MsgBadStart)
    ELSE
    LET endIP == ParseIP(p.End) IN
    IF endIP = NilIP THEN Deny(MsgBadEnd)
    ELSE IF outsideRange(requestedIP, startIP, endIP)
    THEN Deny(MsgNotInRange(r.IPAddr, p.Start, p.End))
    ELSE IF isExcluded(r.IPAddr, p.Exclude) THEN Deny(MsgExcluded(r.IPAddr))
    ELSE IF isAllocated(r.IPAddr, p.Allocated) THEN Deny(MsgAllocated(r.IPAddr))
    ELSE Pass

\* faulty variant: only a negative counter counts as exhausted
noneAvailable_Negative(p) == p.Available < 0

\* the check made when the request names no IP
noneAvailable(p) == p.Available <= 0

checkAvailable(p) ==
    IF noneAvailable(p) THEN Deny(MsgNoAvailable) ELSE Pass

\* the error of the dynamic client's Get of the quota object: the client
\* refuses an empty name, else the cluster answers
\* faulty variant: a Get under the empty name is answered like any other
quotaGetErr_AnyName(q, projectID) == q.getErr

quotaGetErr(q, projectID) ==
    IF projectID = "" THEN "name is required" ELSE q.getErr

\* faulty variant: the threshold is off by one
quotaReached_Strict(usage, quota) == usage > quota

\* usage >= quota
quotaReached(usage, quota) == usage >= quota

\* faulty variant: a failed Get of the quota object skips the enforcement
checkQuota_FailOpen(q, r) ==
    LET projectID == r.project IN
    IF quotaGetErr(q, projectID) # "" THEN Allow
    ELSE IF ~q.decodes THEN Deny(MsgQuotaConvert)
    ELSE IF PoolName \notin DOMAIN q.FloatingIPQuota THEN Deny(MsgNoQuota(projectID))
    ELSE
    LET quota == q.FloatingIPQuota[PoolName]
        usage == IF PoolName \in DOMAIN q.Used THEN q.Used[PoolName] ELSE 0
    IN
    IF quotaReached(usage, quota)
    THEN Deny(MsgQuotaExceeded(projectID, quota, usage))
    ELSE Allow

\* faulty variant: a pool without a quota entry is unlimited
checkQuota_NoEntryUnlimited(q, r) ==
    LET projectID == r.project IN
    IF quotaGetErr(q, projectID) # "" THEN Deny(MsgQuotaGet(projectID))
    ELSE IF ~q.decodes THEN Deny(MsgQuotaConvert)
    ELSE IF PoolName \notin DOMAIN q.FloatingIPQuota THEN Allow
    ELSE
    LET quota == q.FloatingIPQuota[PoolName]
        usage == IF PoolName \in DOMAIN q.Used THEN q.Used[PoolName] ELSE 0
    IN
    IF quotaReached(usage, quota)
    THEN Deny(MsgQuotaExceeded(projectID, quota, usage))
    ELSE Allow

\* project quota enforcement (after the 2 s sleep)
checkQuota(q, r) ==
    LET projectID == r.project IN
    IF quotaGetErr(q, projectID) # "" THEN Deny(MsgQuotaGet(projectID))
    ELSE IF ~q.decodes THEN Deny(MsgQuotaConvert)
    ELSE IF PoolName \notin DOMAIN q.FloatingIPQuota THEN Deny(MsgNoQuota(projectID))
    ELSE
    LET quota == q.FloatingIPQuota[PoolName]
        usage == IF PoolName \in DOMAIN q.Used THEN q.Used[PoolName] ELSE 0
    IN
    IF quotaReached(usage, quota)
    THEN Deny(MsgQuotaExceeded(projectID, quota, usage))
    ELSE Allow

\* step 2: the checks on the requested IP, or on the available counter when
\* the request names none
checkIP(p, r) ==
    IF r.hasIPAddr THEN checkRequestedIP(p, r) ELSE checkAvailable(p)

\* step 3 is reached when step 2 returned no response
thenQuota(ipCheck, q, r) ==
    IF ipCheck # Pass THEN ipCheck ELSE checkQuota(q, r)

\* faulty variant: the quota is enforced before the requested IP is checked
validateFloatingIP_QuotaFirst(p, q, r) ==
    IF p.getErr # "" THEN Deny(MsgPoolNotExist)
    ELSE IF ~p.decodes THEN Deny(MsgPoolConvert)
    ELSE
    LET quotaCheck == checkQuota(q, r) IN
    IF quotaCheck # Allow THEN quotaCheck
    ELSE
    LET ipCheck == IF r.hasIPAddr THEN checkRequestedIP(p, r) ELSE checkAvailable(p) IN
    IF ipCheck # Pass THEN ipCheck ELSE Allow

\* lines 51-276: pool lookup and conversion, the checks on the requested IP
\* or on the available counter, then the quota
validateFloatingIP(p, q, r) ==
    IF p.getErr # "" THEN Deny(MsgPoolNotExist)
    ELSE IF ~p.decodes THEN Deny(MsgPoolConvert)
    ELSE thenQuota(checkIP(p, r), q, r)

(***************************************************************************)
(* validateFloatingIPPool                                                  *)
(***************************************************************************)
MsgPoolSubnetFormat(subnet) == "invalid subnet format: " \o subnet
MsgPoolStartFormat(start) == "invalid start IP address format: " \o start
MsgPoolStartNotInSubnet(start, subnet) ==
    "start IP address " \o start \o " is not within the subnet " \o subnet
MsgPoolEndFormat(end) == "invalid end IP address format: " \o end
MsgPoolEndNotInSubnet(end, subnet) ==
    "end IP address " \o end \o " is not within the subnet " \o subnet
MsgPoolStartAfterEnd(start, end) ==
    "start IP address " \o start \o " must be less than or equal to end IP address " \o end
MsgPoolExcludeFormat(ex) == "invalid excluded IP address format: " \o ex
MsgPoolExcludeNotInSubnet(ex, subnet) ==
    "excluded IP address " \o ex \o " is not within the subnet " \o subnet
MsgPoolExcludeNotInRange(ex, start, end) ==
    "excluded IP address " \o ex \o " is not within the pool range ["
        \o start \o ", " \o end \o "]"

\* faulty variant: start must be strictly below end
startAfterEnd_Strict(startIP, endIP) ==
    LET startIP4 == To4(startIP)
        endIP4 == To4(endIP)
    IN  IF startIP4 # NilIP /\ endIP4 # NilIP
        THEN Compare(startIP4, endIP4) >= 0
        ELSE Compare(startIP, endIP) >= 0

\* bytes.Compare(start, end) > 0, on the 4-byte forms when both are IPv4
startAfterEnd(startIP, endIP) ==
    LET startIP4 == To4(startIP)
        endIP4 == To4(endIP)
    IN  IF startIP4 # NilIP /\ endIP4 # NilIP
        THEN Compare(startIP4, endIP4) > 0
        ELSE Compare(startIP, endIP) > 0

\* the excluded IP is outside [startIP, endIP]
excludedOutsideRange(excludedIP, startIP, endIP) ==
    LET startIP4 == To4(startIP)
        endIP4 == To4(endIP)
        excludedIP4 == To4(excludedIP)
    IN  IF startIP4 # NilIP /\ endIP4 # NilIP /\ excludedIP4 # NilIP
        THEN Compare(excludedIP4, startIP4) < 0 \/ Compare(excludedIP4, endIP4) > 0
        ELSE Compare(excludedIP, startIP) < 0 \/ Compare(excludedIP, endIP) > 0

\* the loop over spec.ipConfig.pool.exclude, from element k on
RECURSIVE checkExcludeFrom(_, _, _, _, _)
checkExcludeFrom(fp, subnet, startIP, endIP, k) ==
    IF k > Len(fp.Exclude) THEN Allow
    ELSE
    LET excludedIPStr == fp.Exclude[k]
        excludedIP == ParseIP(excludedIPStr)
    IN  IF excludedIP = NilIP THEN Deny(MsgPoolExcludeFormat(excludedIPStr))
        ELSE IF ~Contains(subnet, excludedIP)
        THEN Deny(MsgPoolExcludeNotInSubnet(excludedIPStr, fp.Subnet))
        ELSE IF excludedOutsideRange(excludedIP, startIP, endIP)
        THEN Deny(MsgPoolExcludeNotInRange(excludedIPStr, fp.Start, fp.End))
        ELSE checkExcludeFrom(fp, subnet, startIP, endIP, k + 1)

\* faulty variant: only the subnet is checked
validateFloatingIPPool_SubnetOnly(fp) ==
    IF ~fp.hasIPConfig THEN Panic
    ELSE IF ~ParseSubnet(fp.Subnet).ok THEN Deny(MsgPoolSubnetFormat(fp.Subnet))
    ELSE Allow

\* faulty variant: the end address is checked before the start address
validateFloatingIPPool_EndFirst(fp) ==
    IF ~fp.hasIPConfig THEN Panic
    ELSE
    LET subnet == ParseSubnet(fp.Subnet)
        startIP == ParseIP(fp.Start)
        endIP == ParseIP(fp.End)
    IN  IF ~subnet.ok THEN Deny(MsgPoolSubnetFormat(fp.Subnet))
        ELSE IF endIP = NilIP THEN Deny(MsgPoolEndFormat(fp.End))
        ELSE IF ~Contains(subnet, endIP)
        THEN Deny(MsgPoolEndNotInSubnet(fp.End, fp.Subnet))
        ELSE IF startIP = NilIP THEN Deny(MsgPoolStartFormat(fp.Start))
        ELSE IF ~Contains(subnet, startIP)
        THEN Deny(MsgPoolStartNotInSubnet(fp.Start, fp.Subnet))
        ELSE IF startAfterEnd(startIP, endIP)
        THEN Deny(MsgPoolStartAfterEnd(fp.Start, fp.End))
        ELSE checkExcludeFrom(fp, subnet, startIP, endIP, 1)

validateFloatingIPPool(fp) ==
    IF ~fp.hasIPConfig THEN Panic  \* nil pointer dereference of spec.ipConfig
    ELSE
    LET subnet == ParseSubnet(fp.Subnet)
        startIP == ParseIP(fp.Start)
        endIP == ParseIP(fp.End)
    IN  IF ~subnet.ok THEN Deny(MsgPoolSubnetFormat(fp.Subnet))
        ELSE IF startIP = NilIP THEN Deny(MsgPoolStartFormat(fp.Start))
        ELSE IF ~Contains(subnet, startIP)
        THEN Deny(MsgPoolStartNotInSubnet(fp.Start, fp.Subnet))
        ELSE IF endIP = NilIP THEN Deny(MsgPoolEndFormat(fp.End))
        ELSE IF ~Contains(subnet, endIP)
        THEN Deny(MsgPoolEndNotInSubnet(fp.End, fp.Subnet))
        ELSE IF startAfterEnd(startIP, endIP)
        THEN Deny(MsgPoolStartAfterEnd(fp.Start, fp.End))
        ELSE checkExcludeFrom(fp, subnet, startIP, endIP, 1)

(***************************************************************************)
(* The two admission endpoints (validateFloatingIPAdmission,               *)
(* validateFloatingIPPoolAdmission) as functions of the request body.      *)
(*                                                                         *)
(* A body is described by what decoding makes of it: the AdmissionReview   *)
(* envelope does not decode, decodes without a request, or decodes with a  *)
(* request; the request's object payload decodes or not.                   *)
(***************************************************************************)
PathFloatingIP == "/validate-floatingip"
PathFloatingIPPool == "/validate-floatingippool"

Envelopes == { "undecodable", "norequest", "request" }
Payloads == { "undecodable", "object" }

HTTPRequests == [path : {PathFloatingIP, PathFloatingIPPool}, envelope : Envelopes, object : Payloads]
NoHTTPRequest == [path |-> "", envelope |-> "", object |-> ""]

\* what the client of the endpoint receives
HTTPReview == [status |-> 200, contentType |-> "application/json", body |-> "AdmissionReview"]
HTTPError(msg) == [status |-> 500, contentType |-> "text/plain; charset=utf-8", body |-> msg]
\* the handler panicked: net/http recovers and closes the connection
HTTPAborted == [status |-> 0, contentType |-> "", body |-> ""]
NoHTTPResponse == [status |-> -1, contentType |-> "", body |-> ""]

MsgDecodeReview == "cannot decode AdmissionReview to json"
MsgDecodeFloatingIP == "cannot unmarshal json to FloatingIP"
MsgDecodeFloatingIPPool == "cannot unmarshal json to FloatingIPPool"

\* both decodes succeeded, the validator is called
Decoded(h) == h.envelope = "request" /\ h.object = "object"

\* the reply of an endpoint whose payload error text is msg, given the
\* validator's result when it is called
admissionReply(h, msg, response) ==
    IF h.envelope = "undecodable" THEN HTTPError(MsgDecodeReview)
    ELSE IF h.envelope = "norequest" THEN HTTPAborted  \* ar.Request is nil
    ELSE IF h.object = "undecodable" THEN HTTPError(msg)
    ELSE IF response.kind = "panic" THEN HTTPAborted
    ELSE HTTPReview

validateFloatingIPAdmission(h, response) ==
    admissionReply(h, MsgDecodeFloatingIP, response)

validateFloatingIPPoolAdmission(h, response) ==
    admissionReply(h, MsgDecodeFloatingIPPool, response)

(***************************************************************************)
(* The operations validateFloatingIP issues against the cluster, in order. *)
(***************************************************************************)
ResourcePools == "floatingippools"
ResourceQuotas == "floatingipprojectquotas"

Call(verb, resource, name) == [verb |-> verb, resource |-> resource, name |-> name]

\* the quota lookup is reached when every pool and IP check has passed
reachesQuota(p, r) ==
    /\ p.getErr = "" /\ p.decodes
    /\ checkIP(p, r) = Pass

\* faulty variant: the validator books the allocation on the pool
clusterCalls_Books(p, q, r) ==
    <<Call("get", ResourcePools, PoolName)>>
    \o (IF reachesQuota(p, r)
        THEN <<Call("get", ResourceQuotas, r.project),
               Call("update", ResourcePools, PoolName)>>
        ELSE << >>)

clusterCalls(p, q, r) ==
    <<Call("get", ResourcePools, PoolName)>>
    \o (IF reachesQuota(p, r)
        THEN <<Call("get", ResourceQuotas, r.project)>>
        ELSE << >>)

\* validateFloatingIPPool takes no client: it issues no operation
poolClusterCalls(fp) == << >>

(***************************************************************************)
(* Part 3: the certificate lifecycle manager (package config) and the      *)
(* renewal scheduler (package scheduler).                                  *)
(*                                                                         *)
(* Time is counted in clock units, MinuteParts to the minute.  A           *)
(* certificate carries the units left until its not-after time (negative   *)
(* once expired); keys are numbered, NilKey is the nil key.                *)
(***************************************************************************)
MinuteParts == 2
\* the longest validity the signer issues, in minutes
MaxValidity == 3
\* the largest renewal window, in minutes
MaxWindow == 2
\* clock units after not-after beyond which ages are no longer told apart
MaxExpired == 2
Validities == {1, MaxValidity}
\* CERTRENEWALPERIOD: any integer but zero, which stands for the default
Windows == ((-MaxWindow)..MaxWindow) \ {0}

\* the width in bits of int64 and of time.Duration, scaled down; a Duration
\* counts clock units as the 64-bit one counts nanoseconds
IntBits == 8
MaxInt == 2^(IntBits - 1) - 1
MinInt == -(2^(IntBits - 1))

\* two's complement arithmetic: the result of an operation, wrapped
Wrap(x) == ((x - MinInt) % 2^IntBits) + MinInt

\* int64(x) of a float: truncation toward zero
Quot(a, b) == IF a >= 0 THEN a \div b ELSE -((-a) \div b)

NilKey == -1

\* the bytes under tls.crt / of a certificate file / of status.certificate:
\* a PEM certificate, nothing (absent), zero bytes (empty), bytes that are
\* no PEM block (notpem), a PEM block that is no certificate (badder)
X509(key, left) == [kind |-> "x509", key |-> key, left |-> left]
NoCertData == [kind |-> "absent", key |-> NilKey, left |-> 0]
EmptyCert == [kind |-> "empty", key |-> NilKey, left |-> 0]
NotPEM == [kind |-> "notpem", key |-> NilKey, left |-> 0]
BadDER == [kind |-> "badder", key |-> NilKey, left |-> 0]

\* one clock unit later
aged(crt) ==
    IF crt.kind = "x509" /\ crt.left > -MaxExpired
    THEN [crt EXCEPT !.left = @ - 1] ELSE crt

\* the secret <webhookName>-tls and the CSR <webhookName>.<namespace>.svc
NoSecret == [exists |-> FALSE, key |-> NilKey, crt |-> NoCertData]
Secret(key, crt) == [exists |-> TRUE, key |-> key, crt |-> crt]
NoCSR == [exists |-> FALSE, req |-> NilKey, approved |-> FALSE, crt |-> NoCertData]
NewCSR(key) == [exists |-> TRUE, req |-> key, approved |-> FALSE, crt |-> NoCertData]

\* the zero tls.Certificate
NilPair == [key |-> NilKey, crt |-> NoCertData]

\* the call sites that reach the cluster or the file system, by the name of
\* the function that makes the call
Sites ==
    { "checkSecret", "GetCertExpireDate", "checkCSR", "deleteCSR",
      "Create", "UpdateApproval", "Get", "deleteSecret", "createSecret",
      "writeTLSDataFromSecret", "tls.key", "tls.crt" }

\* what a pass meets: the call that fails, if one does, and the validity,
\* in minutes, of the certificate the signer has issued when the CSR is read
\* back (NotIssued: it has issued none yet)
NotIssued == 0
Failures == { {} } \cup { {site} : site \in Sites }
Envs == [ fails : Failures, validity : {NotIssued} \cup Validities ]

\* a mutating call made by a pass, and whether it succeeded
Op(verb, object, ok) == [verb |-> verb, object |-> object, ok |-> ok]

\* the state a pass works on: the cluster objects, the two local files, the
\* pair being built, the pending error, whether the pass panicked, whether
\* it reached writeTLSDataFromSecret, the calls made, the errors logged
Ctx(secret, csr, keyFile, crtFile) ==
    [ secret |-> secret, csr |-> csr, keyFile |-> keyFile, crtFile |-> crtFile,
      tlsPair |-> NilPair, err |-> "", panicked |-> FALSE, writeTried |-> FALSE,
      calls |-> << >>, logged |-> << >> ]

failed(c, verb, object, msg) ==
    [c EXCEPT !.err = msg, !.calls = Append(@, Op(verb, object, FALSE))]

made(c, verb, object) ==
    [c EXCEPT !.calls = Append(@, Op(verb, object, TRUE))]

\* log.Errorf of a returned error
logErr(c) ==
    IF c.err = "" THEN c
    ELSE [c EXCEPT !.logged = Append(@, c.err), !.err = ""]

\* "if err != nil { return }": a step that follows another in
\* createAndSignCSR or renewTLSPair is skipped when c holds an error; Run
\* logs the error of a step of its own before it takes the next
\* getSecret: a failed Get gives the empty Secret
getSecret(c, env, site) == IF site \in env.fails THEN NoSecret ELSE c.secret

\* checkSecret: the name of what getSecret returned is not empty
checkSecret(c, env) == getSecret(c, env, "checkSecret").exists

\* checkCSR: the Get returned no error
checkCSR(c, env) == "checkCSR" \notin env.fails /\ c.csr.exists

deleteCSR(c, env) ==
    IF "deleteCSR" \in env.fails \/ ~c.csr.exists
    THEN failed(c, "delete", "csr", "delete of the signing request failed")
    ELSE made([c EXCEPT !.csr = NoCSR], "delete", "csr")

\* "if h.checkCSR() { h.deleteCSR() }"
clearCSR(c, env) == IF checkCSR(c, env) THEN deleteCSR(c, env) ELSE c

\* createAndSignCSR, step by step
createCSR(c, env, key) ==
    IF c.err # "" THEN c
    ELSE IF "Create" \in env.fails \/ c.csr.exists
    THEN failed(c, "create", "csr", "error while creating signing request")
    ELSE made([c EXCEPT !.csr = NewCSR(key)], "create", "csr")

approveCSR(c, env) ==
    IF c.err # "" THEN c
    ELSE IF "UpdateApproval" \in env.fails
    THEN failed(c, "approve", "csr", "error while approving signing request")
    ELSE made([c EXCEPT !.csr.approved = TRUE], "approve", "csr")

\* the two seconds of sleep: the signer issues the certificate, or not yet
settle(c, env) ==
    IF c.err = "" /\ env.validity # NotIssued
    THEN [c EXCEPT !.csr.crt = X509(c.csr.req, env.validity * MinuteParts)]
    ELSE c

\* status.certificate of the CSR: zero bytes until the signer has issued
statusCertificate(csr) == IF csr.crt.kind = "absent" THEN EmptyCert ELSE csr.crt

readBack(c, env) ==
    IF c.err # "" THEN c
    ELSE IF "Get" \in env.fails
    THEN [c EXCEPT !.err = "error while getting the updated signing request"]
    ELSE [c EXCEPT !.tlsPair.crt = statusCertificate(c.csr)]

createAndSignCSR(c, env, key) ==
    readBack(settle(approveCSR(createCSR(c, env, key), env), env), env)

\* generateTLSKeyAndCert: the pair is filled when the exchange succeeded
withKey(c, key) == IF c.err # "" THEN c ELSE [c EXCEPT !.tlsPair.key = key]

generateTLSKeyAndCert(c, env, key) == withKey(createAndSignCSR(c, env, key), key)

deleteSecret(c, env) ==
    IF c.err # "" THEN c
    ELSE IF "deleteSecret" \in env.fails \/ ~c.secret.exists
    THEN failed(c, "delete", "secret", "cannot delete webhook secret")
    ELSE made([c EXCEPT !.secret = NoSecret], "delete", "secret")

\* faulty variant: an existing secret is overwritten
createSecret_Overwrites(c, env) ==
    IF c.err # "" THEN c
    ELSE IF c.tlsPair.key = NilKey
    THEN [c EXCEPT !.err = "unable to marshal private key"]
    ELSE IF "createSecret" \in env.fails
    THEN failed(c, "create", "secret", "create of the secret failed")
    ELSE IF c.secret.exists
    THEN made([c EXCEPT !.secret.crt = c.tlsPair.crt], "update", "secret")
    ELSE made([c EXCEPT !.secret = Secret(c.tlsPair.key, c.tlsPair.crt)],
              "create", "secret")

\* createSecret: a nil key does not marshal; Create fails when the secret
\* exists
createSecret(c, env) ==
    IF c.err # "" THEN c
    ELSE IF c.tlsPair.key = NilKey
    THEN [c EXCEPT !.err = "unable to marshal private key"]
    ELSE IF "createSecret" \in env.fails \/ c.secret.exists
    THEN failed(c, "create", "secret", "create of the secret failed")
    ELSE made([c EXCEPT !.secret = Secret(c.tlsPair.key, c.tlsPair.crt)],
              "create", "secret")

\* getTLSDataFromSecret on the secret s that getSecret returned
getTLSDataFromSecret(s) ==
    IF s.crt.kind = "absent"
    THEN [err |-> "tls.crt not found in secret", key |-> NilKey, crt |-> NoCertData]
    ELSE IF s.key = NilKey
    THEN [err |-> "tls.key not found in secret", key |-> NilKey, crt |-> s.crt]
    ELSE [err |-> "", key |-> s.key, crt |-> s.crt]

\* the results of GetCertExpireDate: a time (units left from now), an error,
\* or a panic
ExpTime(left) == [kind |-> "time", left |-> left, msg |-> ""]
ExpError(msg) == [kind |-> "error", left |-> 0, msg |-> msg]
ExpPanic == [kind |-> "panic", left |-> 0, msg |-> ""]
NoExpiry == [kind |-> "none", left |-> 0, msg |-> ""]

\* GetCertExpireDate after getTLSDataFromSecret returned t.  When pem.Decode
\* returns nil the message is built with err.Error() on a nil err.
expireDate(t) ==
    IF t.err # "" THEN ExpError("cannot while fetching TLS data: " \o t.err)
    ELSE IF t.crt.kind = "empty" THEN ExpError("certificate is empty")
    ELSE IF t.crt.kind = "notpem" THEN ExpPanic
    ELSE IF t.crt.kind = "badder" THEN ExpError("cannot parse TLS PEM data")
    ELSE ExpTime(t.crt.left)

GetCertExpireDate(c, env, site) ==
    expireDate(getTLSDataFromSecret(getSecret(c, env, site)))

\* int64(difference.Minutes())
minutesLeft(exp) == Quot(exp.left, MinuteParts)

\* faulty variant: the renewal starts one minute early
isDue_Early(exp, certRenewalPeriod) ==
    exp.kind = "time" /\ minutesLeft(exp) <= certRenewalPeriod

\* checkCertExpireDate on the result exp of GetCertExpireDate
isDue(exp, certRenewalPeriod) ==
    exp.kind = "time" /\ minutesLeft(exp) < certRenewalPeriod

\* the two os.WriteFile of writeTLSDataFromSecret, t being the TLS data
writeFiles(c, env, t) ==
    IF t.err # "" THEN [c EXCEPT !.err = "cannot while fetching TLS data: " \o t.err]
    ELSE IF "tls.key" \in env.fails
    THEN failed(c, "write", "tls.key", "error while writing private key file")
    ELSE IF "tls.crt" \in env.fails
    THEN failed(made([c EXCEPT !.keyFile = t.key], "write", "tls.key"),
                "write", "tls.crt", "error while writing certificate file")
    ELSE made(made([c EXCEPT !.keyFile = t.key, !.crtFile = t.crt],
                   "write", "tls.key"), "write", "tls.crt")

writeTLSDataFromSecret(c, env) ==
    writeFiles([c EXCEPT !.writeTried = TRUE], env,
               getTLSDataFromSecret(getSecret(c, env, "writeTLSDataFromSecret")))

\* the end of every pass: the write, its error logged
finish(c, env) == logErr(writeTLSDataFromSecret(c, env))

\* faulty variant: the old secret is kept and its certificate replaced
renewTLSPair_InPlace(c, env, key) ==
    createSecret_Overwrites(generateTLSKeyAndCert(clearCSR(c, env), env, key), env)

\* faulty variant: the old secret is deleted before the exchange
renewTLSPair_DeleteFirst(c, env, key) ==
    createSecret(
        generateTLSKeyAndCert(clearCSR(deleteSecret(c, env), env), env, key), env)

renewTLSPair(c, env, key) ==
    createSecret(
        deleteSecret(generateTLSKeyAndCert(clearCSR(c, env), env, key), env), env)

\* Run without a stored secret: every error is logged and the pass goes on
firstIssue(c, env, key) ==
    logErr(createSecret(
        logErr(generateTLSKeyAndCert(logErr(clearCSR(c, env)), env, key)), env))

\* faulty variant: an expiration that cannot be read counts as due
storedPath_RenewsUnreadable(c, env, key, certRenewalPeriod, exp) ==
    IF exp.kind = "panic" THEN [c EXCEPT !.panicked = TRUE]
    ELSE IF exp.kind = "error" \/ isDue(exp, certRenewalPeriod)
    THEN finish(logErr(renewTLSPair(c, env, key)), env)
    ELSE finish(c, env)

\* Run with a stored secret, exp being what GetCertExpireDate returned to
\* checkCertExpireDate
storedPath(c, env, key, certRenewalPeriod, exp) ==
    IF exp.kind = "panic" THEN [c EXCEPT !.panicked = TRUE]
    ELSE IF exp.kind = "error" THEN finish(logErr([c EXCEPT !.err = exp.msg]), env)
    ELSE IF isDue(exp, certRenewalPeriod)
    THEN finish(logErr(renewTLSPair(c, env, key)), env)
    ELSE finish(c, env)

\* Handler.Run
Run(c, env, key, certRenewalPeriod) ==
    IF checkSecret(c, env)
    THEN storedPath(c, env, key, certRenewalPeriod,
                    GetCertExpireDate(c, env, "GetCertExpireDate"))
    ELSE finish(firstIssue(c, env, key), env)

\* the branch of Run a pass takes
pathOf(c, env, certRenewalPeriod) ==
    IF ~checkSecret(c, env) THEN "first"
    ELSE IF GetCertExpireDate(c, env, "GetCertExpireDate").kind = "panic" THEN "panic"
    ELSE IF isDue(GetCertExpireDate(c, env, "GetCertExpireDate"), certRenewalPeriod)
    THEN "renew"
    ELSE "fresh"

\* rsa.GenerateKey: a key no object holds
keysOf(secret, csr, keyFile, crtFile) ==
    { secret.key, secret.crt.key, csr.req, csr.crt.key, keyFile, crtFile.key }

freshKey(secret, csr, keyFile, crtFile) ==
    CHOOSE k \in 0..6 :
        /\ k \notin keysOf(secret, csr, keyFile, crtFile)
        /\ \A j \in 0..(k - 1) : j \in keysOf(secret, csr, keyFile, crtFile)

\* faulty variant: the minutes are rounded down
sTime_Floor(exp, certRenewalPeriod) ==
    IF (exp.left \div MinuteParts) - certRenewalPeriod + 1 < 1 THEN 1
    ELSE (exp.left \div MinuteParts) - certRenewalPeriod + 1

\* faulty variant: two extra minutes instead of one
sTime_Late(exp, certRenewalPeriod) ==
    IF minutesLeft(exp) - certRenewalPeriod + 2 < 1 THEN 1
    ELSE minutesLeft(exp) - certRenewalPeriod + 2

\* faulty variant: the shortest period is two minutes
sTime_Two(exp, certRenewalPeriod) ==
    IF Wrap(Wrap(minutesLeft(exp) - certRenewalPeriod) + 1) < 2 THEN 2
    ELSE Wrap(Wrap(minutesLeft(exp) - certRenewalPeriod) + 1)

\* StartCertRenewalScheduler: the ticker period in minutes, an int64
sTime(exp, certRenewalPeriod) ==
    IF Wrap(Wrap(minutesLeft(exp) - certRenewalPeriod) + 1) < 1 THEN 1
    ELSE Wrap(Wrap(minutesLeft(exp) - certRenewalPeriod) + 1)

\* time.Duration(sTime) * time.Minute
Duration(minutes) == Wrap(minutes * MinuteParts)

NoTimer == [armed |-> FALSE, left |-> 0]
\* faulty variant: the ticker is created stopped
Timer_Stopped(minutes) == [armed |-> FALSE, left |-> minutes * MinuteParts]

\* time.NewTicker(d), which panics when d is not positive
Timer(minutes) == [armed |-> TRUE, left |-> Duration(minutes)]

\* the expiration was read and time.NewTicker took the duration
Armed(exp, certRenewalPeriod) ==
    exp.kind = "time" /\ Duration(sTime(exp, certRenewalPeriod)) > 0

(***************************************************************************)
(* The validation engine as a state machine: the cluster's answers are the *)
(* state, a request arrives and is answered in one step.                   *)
(***************************************************************************)
VARIABLES
    pool, quota, req, resp,            \* a call of validateFloatingIP
    fipPool, httpReq, httpResp, calls, \* a request on an admission endpoint
    inflight,                          \* the calls of validateFloatingIP under way
    secret, csr, keyFile, crtFile,     \* the stored identity and its files
    certRenewalPeriod,                 \* the renewal window, in minutes
    pass, expiry,                      \* the last Run, the last expiration read
    phase, timer, server,              \* the scheduler and the HTTPS server
    shutdown,                          \* main's handling of SIGINT and SIGTERM
    tasks, tickers                     \* the scheduler's goroutines and tickers

admissionVars == <<fipPool, httpReq, httpResp, calls, inflight>>

identityVars == <<secret, csr, keyFile, crtFile, certRenewalPeriod, pass, expiry>>

goroutineVars == <<tasks, tickers>>

schedulerVars == <<phase, timer, server, shutdown, goroutineVars>>

vars == <<pool, quota, req, resp, admissionVars, identityVars, schedulerVars>>

\* the last pass: seq alternates from pass to pass; clean, it met no failure;
\* again, it followed a clean pass with no time between; aged, time has
\* passed since; path, the branch of Run it took; tlsPair, the pair that
\* generateTLSKeyAndCert gave it (its key is nil when that failed)
NoPass ==
    [ seq |-> 0, ran |-> FALSE, byTimer |-> FALSE, clean |-> TRUE, again |-> FALSE,
      aged |-> FALSE, path |-> "none",
      calls |-> << >>, logged |-> << >>, tlsPair |-> NilPair,
      panicked |-> FALSE, writeTried |-> FALSE ]

\* the certificate manager and the scheduler are not running
CertIdle_Fields ==
    /\ secret = NoSecret
    /\ csr = NoCSR
    /\ keyFile = NilKey
    /\ crtFile = NoCertData
    /\ certRenewalPeriod = MaxWindow
    /\ pass = NoPass
    /\ expiry = NoExpiry
    /\ phase = "off"
    /\ timer = NoTimer
    /\ server = "stopped"
    /\ shutdown = "no"

\* the certificate manager and the scheduler are not running
CertIdle ==
    /\ CertIdle_Fields
    /\ tasks = << >>
    /\ tickers = << >>

NoFipPool ==
    [hasIPConfig |-> FALSE, Subnet |-> "-", Start |-> "-", End |-> "-", Exclude |-> << >>]

\* no request has reached an endpoint
AdmissionIdle ==
    /\ fipPool = NoFipPool
    /\ httpReq = NoHTTPRequest
    /\ httpResp = NoHTTPResponse
    /\ calls = << >>
    /\ inflight = << >>

InitValidate ==
    /\ pool \in PoolAnswers
    /\ quota \in QuotaAnswers
    /\ req = NoRequest
    /\ resp = NoResponse
    /\ AdmissionIdle
    /\ CertIdle

\* one call of validateFloatingIP for request r
ValidateFloatingIP(r) ==
    /\ resp = NoResponse
    /\ req' = r
    /\ resp' = validateFloatingIP(pool, quota, r)
    /\ UNCHANGED <<pool, quota, admissionVars, identityVars, schedulerVars>>

NextValidate == \E r \in Requests : ValidateFloatingIP(r)

SpecValidate == InitValidate /\ [][NextValidate]_vars

TypeOK ==
    /\ pool \in PoolAnswers
    /\ quota \in QuotaAnswers
    /\ req \in Requests \cup {NoRequest}
    /\ resp.kind \in {"none", "response", "panic"}

(***************************************************************************)
(* Properties of validateFloatingIP.                                       *)
(*                                                                         *)
(* The conditions below are stated on the inputs of the call (pool, quota, *)
(* req), independently of the order in which the function tests them.      *)
(***************************************************************************)
Done == resp # NoResponse
Answered == resp.kind = "response"
Allowed == resp.kind = "response" /\ resp.Allowed
Denied == resp.kind = "response" /\ ~resp.Allowed

\* the pool Get answered an object that converts and has an IP configuration
PoolExists == pool.getErr = "" /\ pool.decodes
PoolUsable == PoolExists /\ pool.hasIPConfig

\* the 16-byte form of the address a literal denotes (nil when it denotes none)
Addr(s) == ParseIP(s)

\* numeric order of two addresses in their common 16-byte form
AddrLeq(a, b) ==
    /\ Len(a) = IPv6len /\ Len(b) = IPv6len
    /\ \/ a = b
       \/ \E k \in 1..IPv6len : a[k] < b[k] /\ \A j \in 1..(k - 1) : a[j] = b[j]

IsIPv4(a) == Len(a) = IPv6len /\ SubSeq(a, 1, 12) = v4InV6Prefix

ReqParses == req.hasIPAddr /\ Addr(req.IPAddr) # NilIP
SubnetParses == ParseSubnet(pool.Subnet).ok
InSubnet == SubnetParses /\ ReqParses /\ Contains(ParseSubnet(pool.Subnet), Addr(req.IPAddr))
StartParses == Addr(pool.Start) # NilIP
EndParses == Addr(pool.End) # NilIP
InRange ==
    /\ ReqParses /\ StartParses /\ EndParses
    /\ AddrLeq(Addr(pool.Start), Addr(req.IPAddr))
    /\ AddrLeq(Addr(req.IPAddr), Addr(pool.End))
InExcludeList == \E k \in DOMAIN pool.Exclude : pool.Exclude[k] = req.IPAddr
InAllocated == req.IPAddr \in DOMAIN pool.Allocated

QuotaFound == req.project # "" /\ quota.getErr = ""
QuotaExists == QuotaFound /\ quota.decodes
HasQuotaEntry == QuotaExists /\ PoolName \in DOMAIN quota.FloatingIPQuota
QuotaOf == IF HasQuotaEntry THEN quota.FloatingIPQuota[PoolName] ELSE 0
UsedOf == IF QuotaExists /\ PoolName \in DOMAIN quota.Used THEN quota.Used[PoolName] ELSE 0

\* the checks in the documented order, each with the reason it denies with:
\* pool exists; requested IP parses, in subnet, in [start,end], not excluded,
\* not allocated - or, with no requested IP, available > 0; then the quota
\* object exists, has an entry for the pool, used < quota
PoolChecks ==
    << [fails |-> pool.getErr # "", msg |-> MsgPoolNotExist],
       [fails |-> ~pool.decodes, msg |-> MsgPoolConvert] >>

IPChecks ==
    IF req.hasIPAddr
    THEN << [fails |-> ~ReqParses, msg |-> MsgInvalidIP(req.IPAddr)],
            [fails |-> ~SubnetParses, msg |-> MsgBadSubnet],
            [fails |-> ~InSubnet, msg |-> MsgNotInSubnet(req.IPAddr, pool.Subnet)],
            [fails |-> ~StartParses, msg |-> MsgBadStart],
            [fails |-> ~EndParses, msg |-> MsgBadEnd],
            [fails |-> ~InRange,
             msg |-> MsgNotInRange(req.IPAddr, pool.Start, pool.End)],
            [fails |-> InExcludeList, msg |-> MsgExcluded(req.IPAddr)],
            [fails |-> InAllocated, msg |-> MsgAllocated(req.IPAddr)] >>
    ELSE << [fails |-> pool.Available <= 0, msg |-> MsgNoAvailable] >>

QuotaChecks ==
    << [fails |-> ~QuotaFound, msg |-> MsgQuotaGet(req.project)],
       [fails |-> ~quota.decodes, msg |-> MsgQuotaConvert],
       [fails |-> ~HasQuotaEntry, msg |-> MsgNoQuota(req.project)],
       [fails |-> UsedOf >= QuotaOf,
        msg |-> MsgQuotaExceeded(req.project, QuotaOf, UsedOf)] >>

OrderedChecks == PoolChecks \o IPChecks \o QuotaChecks

Failing(checks) == { k \in DOMAIN checks : checks[k].fails }

\* index of the earliest failing check of a list (0 when none fails)
FirstFailing(checks) ==
    IF Failing(checks) = {} THEN 0
    ELSE CHOOSE k \in Failing(checks) : \A j \in Failing(checks) : k <= j

\* every check before the quota checks passes
EarlierChecksPass == Failing(PoolChecks \o IPChecks) = {}

(***************************************************************************)
(* Claims C1 - C10: validateFloatingIP.                                    *)
(***************************************************************************)

C2_ValidRequestAllowed ==
    ( /\ Done /\ PoolUsable /\ req.hasIPAddr
      /\ InSubnet /\ InRange /\ ~InExcludeList /\ ~InAllocated
      /\ HasQuotaEntry /\ UsedOf < QuotaOf )
    => resp = Allow

\* C2 witness: the pool's start address itself is requested and allowed.
C2_Witness ==
    /\ Allowed /\ req.hasIPAddr /\ req.IPAddr = pool.Start
    /\ InSubnet /\ InRange /\ UsedOf < QuotaOf

\* the lookup or conversion failures of a call: the Get of the pool or of
\* the quota object fails, either object does not convert, or the subnet,
\* start or end of the pool does not parse when the requested IP is checked
\* against them
LookupOrConversionFails ==
    \/ pool.getErr # ""
    \/ ~pool.decodes
    \/ quotaGetErr(quota, req.project) # ""
    \/ ~quota.decodes
    \/ /\ req.hasIPAddr /\ PoolUsable
       /\ (~SubnetParses \/ ~StartParses \/ ~EndParses)

AnswerWithUsed(u) ==
    validateFloatingIP(pool, [quota EXCEPT !.Used = [n \in {PoolName} |-> u]], req)

\* C4: once all earlier checks pass and the quota entry exists, the call
\* allows iff used < quota (used = 0 when the status has no entry); at
\* used >= quota it denies with a message ending "Quota: Q, Used: U"; and
\* with a larger used counter the same call is never allowed when it was
\* denied with the smaller one.
C4_QuotaThreshold ==
    (Done /\ EarlierChecksPass /\ HasQuotaEntry) =>
        /\ Allowed <=> UsedOf < QuotaOf
        /\ UsedOf >= QuotaOf =>
              /\ Denied
              /\ HasSuffix(resp.Message,
                    "Quota: " \o ToString(QuotaOf) \o ", Used: " \o ToString(UsedOf))
        /\ \A u \in UsedOf..(MaxUsed + 1) : AnswerWithUsed(u).Allowed => Allowed

\* C4 witness: used exceeds quota and the deny reports both numbers.
C4_Witness ==
    /\ Denied /\ EarlierChecksPass /\ HasQuotaEntry
    /\ PoolName \in DOMAIN quota.Used /\ UsedOf > QuotaOf
    /\ HasSuffix(resp.Message, "Quota: 0, Used: 1")

\* C5: a request whose project has no quota object, or whose quota object
\* has no entry for the pool, is never allowed, whatever the pool and the
\* used counters are.
C5_NoQuotaNeverAllowed ==
    (Done /\ (~QuotaFound \/ (QuotaExists /\ ~HasQuotaEntry))) => ~Allowed

\* C5 witness: the pool checks pass, the quota object exists without an
\* entry for the pool, and the answer is the "no quota defined" deny.
C5_Witness ==
    /\ Denied /\ EarlierChecksPass /\ QuotaExists /\ ~HasQuotaEntry
    /\ PoolName \in DOMAIN quota.Used
    /\ resp.Message = MsgNoQuota(req.project)

\* the answer of the quota checks alone: a function of the quota answer and
\* of the request's project, of no field of the pool
QuotaDecision ==
    LET k == FirstFailing(QuotaChecks) IN
    IF k = 0 THEN Allow ELSE Deny(QuotaChecks[k].msg)

\* C6: with no requested IP and an existing pool, the answer is the
\* "no available IPs" deny iff available <= 0; with available > 0 the answer
\* is the one of the quota checks alone, whatever the subnet, range, exclude
\* list and allocated map are.
C6_AvailableOnly ==
    (Done /\ ~req.hasIPAddr /\ PoolExists) =>
        /\ resp = Deny(MsgNoAvailable) <=> pool.Available <= 0
        /\ pool.Available > 0 => resp = QuotaDecision

\* C6 witness: available is 0 and the call denies although the quota would
\* allow.
C6_Witness ==
    /\ Done /\ ~req.hasIPAddr /\ PoolExists /\ pool.Available = 0
    /\ HasQuotaEntry /\ UsedOf < QuotaOf
    /\ resp = Deny(MsgNoAvailable)

\* the requested IP passed the parse, subnet and range checks
PassedSubnetAndRange == PoolUsable /\ InSubnet /\ InRange

\* C7: a requested literal that is in the exclude list or a key of the
\* allocated map is never allowed; having passed the subnet and range checks
\* it is denied with "is in the exclude list", resp. "is already allocated",
\* the exclude-list reason winning when both apply.
C7_ExcludedOrAllocatedDenied ==
    (Done /\ req.hasIPAddr /\ (InExcludeList \/ InAllocated)) =>
        /\ ~Allowed
        /\ PassedSubnetAndRange =>
              resp = Deny(IF InExcludeList THEN MsgExcluded(req.IPAddr)
                          ELSE MsgAllocated(req.IPAddr))

\* C7 witness: an allocated IP that is not excluded is denied as allocated.
C7_Witness ==
    /\ Denied /\ req.hasIPAddr /\ PassedSubnetAndRange
    /\ ~InExcludeList /\ InAllocated
    /\ resp.Message = MsgAllocated(req.IPAddr)

\* C8: a syntactically valid requested IP outside the pool's subnet is
\* denied with a message that contains the subnet, whatever the range, the
\* exclude list, the allocations and the quota are.
C8_OutsideSubnetDenied ==
    (Done /\ PoolUsable /\ ReqParses /\ SubnetParses /\ ~InSubnet) =>
        (Denied /\ StrContains(resp.Message, pool.Subnet))

\* C8 witness: an IPv4 address outside an IPv4 subnet, with a quota lookup
\* that would fail too.
C8_Witness ==
    /\ Denied /\ PoolUsable /\ ReqParses /\ SubnetParses /\ ~InSubnet
    /\ IsIPv4(Addr(req.IPAddr)) /\ pool.Subnet = "192.168.1.0/24"
    /\ quota.getErr # ""

\* the operands of the range check of the current request
Operands == rangeOperands(Addr(req.IPAddr), Addr(pool.Start), Addr(pool.End))

\* C9: the range check is inclusive and family-aware: a request inside the
\* subnet is denied as out of range iff not start <= IP <= end in address
\* order; the three operands compared always have one common length, and it
\* is 4 bytes when request, start and end are all IPv4.
C9_RangeInclusiveFamilyAware ==
    (Done /\ PoolUsable /\ InSubnet /\ StartParses /\ EndParses) =>
        /\ resp = Deny(MsgNotInRange(req.IPAddr, pool.Start, pool.End)) <=> ~InRange
        /\ Len(Operands.req) = Len(Operands.start)
        /\ Len(Operands.req) = Len(Operands.end)
        /\ ( IsIPv4(Addr(req.IPAddr)) /\ IsIPv4(Addr(pool.Start))
               /\ IsIPv4(Addr(pool.End)) ) => Len(Operands.req) = IPv4len

\* C9 witness: the request equals the pool's end address, all three are
\* IPv4, and the range check lets it through.
C9_Witness ==
    /\ Allowed /\ PoolUsable /\ InSubnet /\ req.IPAddr = pool.End
    /\ IsIPv4(Addr(req.IPAddr)) /\ IsIPv4(Addr(pool.Start))
    /\ Len(Operands.req) = IPv4len

\* a pool whose spec defines a subnet but no start and no end
NoRangePool == PoolUsable /\ SubnetParses /\ pool.Start = "" /\ pool.End = ""

\* C10: against a pool with a subnet and an exclude list but no start/end
\* range, a requested IP inside the subnet is allowed when it is neither
\* excluded nor allocated and quota is available, denied with "is in the
\* exclude list" when excluded, and with "is already allocated" when
\* allocated.
C10_NoRangePool ==
    (Done /\ NoRangePool /\ InSubnet) =>
        /\ (~InExcludeList /\ ~InAllocated /\ HasQuotaEntry /\ UsedOf < QuotaOf)
              => resp = Allow
        /\ InExcludeList => resp = Deny(MsgExcluded(req.IPAddr))
        /\ (InAllocated /\ ~InExcludeList) => resp = Deny(MsgAllocated(req.IPAddr))

(***************************************************************************)
(* Part 2: the admission endpoints as a state machine.  The cluster holds  *)
(* one of a few pool and quota states; a request arrives on one of the two *)
(* endpoints and is handled in one step.                                   *)
(***************************************************************************)
FixturePool ==
    [ getErr |-> "", decodes |-> TRUE, hasIPConfig |-> TRUE,
      Subnet |-> "192.168.1.0/24", Start |-> "192.168.1.10", End |-> "192.168.1.200",
      Exclude |-> <<"192.168.1.101">>, Allocated |-> << >>, Available |-> 1 ]

FixtureQuota(used) ==
    [ getErr |-> "", decodes |-> TRUE,
      FloatingIPQuota |-> [n \in {PoolName} |-> 1],
      Used |-> [n \in {PoolName} |-> used] ]

AdmissionPools == { FixturePool, NoPool, [NoPool EXCEPT !.getErr = "NotFound"] }
AdmissionQuotas == { FixtureQuota(0), FixtureQuota(1) }

InitAdmission ==
    /\ pool \in AdmissionPools
    /\ quota \in AdmissionQuotas
    /\ req = NoRequest
    /\ resp = NoResponse
    /\ AdmissionIdle
    /\ CertIdle

\* POST /validate-floatingip with body h carrying the FloatingIP r
ValidateFloatingIPAdmission(h, r) ==
    /\ httpResp = NoHTTPResponse
    /\ h.path = PathFloatingIP
    /\ httpReq' = h
    /\ req' = (IF Decoded(h) THEN r ELSE NoRequest)
    /\ resp' = (IF Decoded(h) THEN validateFloatingIP(pool, quota, r) ELSE NoResponse)
    /\ calls' = (IF Decoded(h) THEN clusterCalls(pool, quota, r) ELSE << >>)
    /\ httpResp' = validateFloatingIPAdmission(h, resp')
    /\ UNCHANGED <<pool, quota, fipPool, inflight, identityVars, schedulerVars>>

\* POST /validate-floatingippool with body h carrying the FloatingIPPool fp
ValidateFloatingIPPoolAdmission(h, fp) ==
    /\ httpResp = NoHTTPResponse
    /\ h.path = PathFloatingIPPool
    /\ httpReq' = h
    /\ fipPool' = (IF Decoded(h) THEN fp ELSE NoFipPool)
    /\ resp' = (IF Decoded(h) THEN validateFloatingIPPool(fp) ELSE NoResponse)
    /\ calls' = (IF Decoded(h) THEN poolClusterCalls(fp) ELSE << >>)
    /\ httpResp' = validateFloatingIPPoolAdmission(h, resp')
    /\ UNCHANGED <<pool, quota, req, inflight, identityVars, schedulerVars>>

\* one request is followed from its arrival to its reply
NextAdmission ==
    /\ httpResp = NoHTTPResponse
    /\ \/ \E h \in HTTPRequests, r \in Requests : ValidateFloatingIPAdmission(h, r)
       \/ \E h \in HTTPRequests, fp \in FipPools : ValidateFloatingIPPoolAdmission(h, fp)

SpecAdmission == InitAdmission /\ [][NextAdmission]_vars

(***************************************************************************)
(* Properties of validateFloatingIPPool, stated on the submitted object.   *)
(***************************************************************************)
\* the pool validator was called on fipPool
PoolValidated == httpReq.path = PathFloatingIPPool /\ Decoded(httpReq)
\* the FloatingIP validator was called on req
FloatingIPValidated == httpReq.path = PathFloatingIP /\ Decoded(httpReq)

PoolSubnet == ParseSubnet(fipPool.Subnet)

\* s is an address literal inside the pool's subnet
ParsesInSubnet(s) == Addr(s) # NilIP /\ Contains(PoolSubnet, Addr(s))

\* s lies in [start, end]
InPoolRange(s) ==
    AddrLeq(Addr(fipPool.Start), Addr(s)) /\ AddrLeq(Addr(s), Addr(fipPool.End))

PoolSpecValid ==
    /\ fipPool.hasIPConfig
    /\ PoolSubnet.ok
    /\ ParsesInSubnet(fipPool.Start)
    /\ ParsesInSubnet(fipPool.End)
    /\ AddrLeq(Addr(fipPool.Start), Addr(fipPool.End))
    /\ \A k \in DOMAIN fipPool.Exclude :
          ParsesInSubnet(fipPool.Exclude[k]) /\ InPoolRange(fipPool.Exclude[k])

(***************************************************************************)
(* Claims C11 - C13: the pool validator and the endpoints.                 *)
(***************************************************************************)

\* C11: validateFloatingIPPool allows a pool spec if and only if the subnet
\* parses as a CIDR, start and end parse and lie in the subnet, start <= end
\* (start = end allowed, start > end denied), and every excluded IP parses,
\* lies in the subnet and lies in [start, end].
C11_PoolAllowedIffValid ==
    PoolValidated => (Allowed <=> PoolSpecValid)

\* a pool of one address, that address excluded, is allowed
C11_Witness ==
    /\ PoolValidated /\ Allowed
    /\ fipPool.Start = fipPool.End
    /\ fipPool.Exclude = <<fipPool.Start>>

\* C12: the validation engine mutates nothing: a validation only issues
\* reads (get) of the pool and of the quota object, and leaves the pool and
\* the quota as they were.
C12_ValidationOnlyReads ==
    [][ /\ pool' = pool
        /\ quota' = quota
        /\ \A k \in DOMAIN calls' :
              /\ calls'[k].verb = "get"
              /\ calls'[k].resource \in {ResourcePools, ResourceQuotas} ]_vars

\* a FloatingIP was allowed after the pool and the quota were both read
C12_Witness ==
    /\ FloatingIPValidated /\ Allowed
    /\ Len(calls) = 2
    /\ pool = FixturePool

\* C13: every request on an endpoint is answered with a JSON
\* admission-review envelope whose response is populated, internal errors
\* included.
C13_AlwaysAnsweredWithReview ==
    httpResp # NoHTTPResponse =>
        /\ httpResp = HTTPReview
        /\ resp.kind = "response"

(***************************************************************************)
(* Concurrent calls of validateFloatingIP.  net/http serves each request   *)
(* in a goroutine of its own; a call reads the pool, sleeps, then reads    *)
(* the quota object.  The controller that owns the quota object raises     *)
(* used once an allowed FloatingIP has been stored.                        *)
(***************************************************************************)
Handlers == 1..NumHandlers

ConcurrentRequests ==
    { [hasIPAddr |-> FALSE, IPAddr |-> "", project |-> ProjectName],
      [hasIPAddr |-> TRUE, IPAddr |-> "192.168.1.10", project |-> ProjectName],
      [hasIPAddr |-> TRUE, IPAddr |-> "invalid-ip", project |-> ProjectName] }

\* the quota object of the project, with its limit and its used counter
QuotaWith(limit, used) ==
    [FixtureQuota(used) EXCEPT !.FloatingIPQuota = [n \in {PoolName} |-> limit]]

\* a call: idle, settling (asleep before the quota is read), or answered;
\* read is the used counter it read, counted whether the controller has
\* counted the FloatingIP it allowed
IdleCall ==
    [stage |-> "idle", req |-> NoRequest, resp |-> NoResponse, read |-> -1,
     counted |-> FALSE]

InitConcurrent ==
    /\ pool = FixturePool
    /\ quota \in { QuotaWith(limit, used) : limit \in 1..(MaxQuota + 1), used \in 0..MaxUsed }
    /\ req = NoRequest
    /\ resp = NoResponse
    /\ fipPool = NoFipPool
    /\ httpReq = NoHTTPRequest
    /\ httpResp = NoHTTPResponse
    /\ calls = << >>
    /\ inflight = [h \in Handlers |-> IdleCall]
    /\ CertIdle

\* validateFloatingIP up to the sleep: the pool is read and the address
\* checked; a deny is returned at once
Arrive(h, r) ==
    /\ inflight[h].stage = "idle"
    /\ inflight' =
           [inflight EXCEPT ![h] =
               IF reachesQuota(pool, r)
               THEN [IdleCall EXCEPT !.stage = "settling", !.req = r]
               ELSE [IdleCall EXCEPT !.stage = "answered", !.req = r,
                                     !.resp = validateFloatingIP(pool, quota, r)]]
    /\ UNCHANGED <<pool, quota, req, resp, fipPool, httpReq, httpResp, calls>>
    /\ UNCHANGED <<identityVars, schedulerVars>>

\* the used counter a Get of the quota object shows
usedNow(q) == IF PoolName \in DOMAIN q.Used THEN q.Used[PoolName] ELSE 0

\* the FloatingIPs allowed by the other calls and not yet counted
pending(h) ==
    Cardinality({ g \in Handlers \ {h} :
                    inflight[g].resp.Allowed /\ ~inflight[g].counted })

\* faulty variant: a call counts the FloatingIPs allowed and not yet counted
ReadQuota_CountsPending(h) ==
    /\ inflight[h].stage = "settling"
    /\ inflight' =
           [inflight EXCEPT ![h].stage = "answered",
                            ![h].read = usedNow(quota),
                            ![h].resp = validateFloatingIP(pool,
                                QuotaWith(quota.FloatingIPQuota[PoolName],
                                          usedNow(quota) + pending(h)),
                                inflight[h].req)]
    /\ UNCHANGED <<pool, quota, req, resp, fipPool, httpReq, httpResp, calls>>
    /\ UNCHANGED <<identityVars, schedulerVars>>

\* validateFloatingIP after the sleep: the quota object is read and judged
ReadQuota(h) ==
    /\ inflight[h].stage = "settling"
    /\ inflight' =
           [inflight EXCEPT ![h].stage = "answered",
                            ![h].read = usedNow(quota),
                            ![h].resp = validateFloatingIP(pool, quota, inflight[h].req)]
    /\ UNCHANGED <<pool, quota, req, resp, fipPool, httpReq, httpResp, calls>>
    /\ UNCHANGED <<identityVars, schedulerVars>>

\* the controller counts a FloatingIP that was allowed
Account(h) ==
    /\ inflight[h].stage = "answered"
    /\ inflight[h].resp.Allowed
    /\ ~inflight[h].counted
    /\ quota' = QuotaWith(quota.FloatingIPQuota[PoolName], usedNow(quota) + 1)
    /\ inflight' = [inflight EXCEPT ![h].counted = TRUE]
    /\ UNCHANGED <<pool, req, resp, fipPool, httpReq, httpResp, calls>>
    /\ UNCHANGED <<identityVars, schedulerVars>>

NextConcurrent ==
    \E h \in Handlers :
        \/ \E r \in ConcurrentRequests : Arrive(h, r)
        \/ ReadQuota(h)
        \/ Account(h)

SpecConcurrent == InitConcurrent /\ [][NextConcurrent]_vars

\* C22: a call that reached the quota check is allowed exactly when the used
\* counter it read was below the quota, whatever the other calls have been
\* answered; FloatingIPs allowed and not yet counted play no part.
C22_JudgedOnOwnRead ==
    \A h \in Handlers :
        inflight[h].stage = "answered" /\ inflight[h].read >= 0 =>
            (inflight[h].resp.Allowed <=>
                 inflight[h].read < quota.FloatingIPQuota[PoolName])

\* both calls read used = quota - 1, both were allowed, and the FloatingIPs
\* counted exceed the quota
C22_Witness ==
    /\ \A h \in Handlers :
           /\ inflight[h].resp.Allowed /\ inflight[h].counted
           /\ inflight[h].read = quota.FloatingIPQuota[PoolName] - 1
    /\ usedNow(quota) > quota.FloatingIPQuota[PoolName]

(***************************************************************************)
(* Part 3, continued: Handler.Run as a state machine.  The cluster holds   *)
(* any secret and any CSR when the manager starts; a pass is one call of   *)
(* Run.                                                                    *)
(***************************************************************************)
CertLefts == (-MaxExpired)..(MaxValidity * MinuteParts)

\* the secrets the manager may find: none, an identity, and secrets whose
\* tls.crt is missing, empty, not PEM, not a certificate, or whose tls.key
\* is missing
StoredSecrets ==
    { NoSecret } \cup { Secret(0, X509(0, l)) : l \in CertLefts }
    \cup { Secret(0, NoCertData), Secret(0, EmptyCert), Secret(0, NotPEM),
           Secret(0, BadDER), Secret(NilKey, X509(0, MaxValidity * MinuteParts)) }

\* a CSR left behind by an earlier exchange
StaleCSR ==
    [ exists |-> TRUE, req |-> 1, approved |-> TRUE,
      crt |-> X509(1, MaxValidity * MinuteParts) ]

StoredCSRs == { NoCSR, StaleCSR }

NoServices ==
    /\ pool = NoPool
    /\ quota = NoQuota
    /\ req = NoRequest
    /\ resp = NoResponse
    /\ AdmissionIdle

InitRun ==
    /\ NoServices
    /\ secret \in StoredSecrets
    /\ csr \in StoredCSRs
    /\ \/ keyFile = NilKey /\ crtFile = NoCertData
       \/ secret.exists /\ keyFile = secret.key /\ crtFile = secret.crt
    /\ certRenewalPeriod \in Windows
    /\ pass = NoPass
    /\ expiry = NoExpiry
    /\ phase = "off"
    /\ timer = NoTimer
    /\ server = "stopped"
    /\ shutdown = "no"
    /\ tasks = << >>
    /\ tickers = << >>

\* the record of the pass that ended in c
PassOf(c, env, byTimer, path) ==
    [ seq |-> 1 - pass.seq, ran |-> TRUE, byTimer |-> byTimer, clean |-> env.fails = {},
      again |-> pass.ran /\ pass.clean /\ ~pass.aged,
      aged |-> FALSE, path |-> path,
      calls |-> c.calls, logged |-> c.logged, tlsPair |-> c.tlsPair,
      panicked |-> c.panicked, writeTried |-> c.writeTried ]

\* the pass that ended in c takes effect
Passed(c, env, byTimer) ==
    /\ secret' = c.secret
    /\ csr' = c.csr
    /\ keyFile' = c.keyFile
    /\ crtFile' = c.crtFile
    /\ pass' = PassOf(c, env, byTimer,
                      pathOf(Ctx(secret, csr, keyFile, crtFile), env, certRenewalPeriod))
    /\ expiry' = (IF checkSecret(Ctx(secret, csr, keyFile, crtFile), env)
                  THEN GetCertExpireDate(Ctx(secret, csr, keyFile, crtFile), env,
                                         "GetCertExpireDate")
                  ELSE expiry)
    /\ UNCHANGED <<pool, quota, req, resp, admissionVars, certRenewalPeriod>>

\* one call of Run(certRenewalPeriod)
InvokeRun(env, byTimer) ==
    Passed(Run(Ctx(secret, csr, keyFile, crtFile), env,
               freshKey(secret, csr, keyFile, crtFile), certRenewalPeriod),
           env, byTimer)

\* Run is called, and called again, by a process that does nothing else
CallRun(env) ==
    /\ ~pass.panicked
    /\ InvokeRun(env, FALSE)
    /\ UNCHANGED schedulerVars

NextRun == \E env \in Envs : CallRun(env)

SpecRun == InitRun /\ [][NextRun]_vars

(***************************************************************************)
(* The process from main on: the first pass, the renewal scheduler and the *)
(* timer.  A clock tick is one clock unit; the steps of the process take   *)
(* no time at that scale.                                                  *)
(***************************************************************************)
InitCert ==
    /\ NoServices
    /\ secret \in StoredSecrets
    /\ csr \in StoredCSRs
    /\ keyFile = NilKey
    /\ crtFile = NoCertData
    /\ certRenewalPeriod \in Windows
    /\ pass = NoPass
    /\ expiry = NoExpiry
    /\ phase = "main"
    /\ timer = NoTimer
    /\ server = "stopped"
    /\ shutdown = "no"
    /\ tasks = << >>
    /\ tickers = << >>

\* Handler.Run of the service: ListenAndServeTLS serves when the two files
\* hold a key and its certificate, and returns an error otherwise
served(key, crt) ==
    IF key # NilKey /\ crt.kind = "x509" /\ crt.key = key THEN "running"
    ELSE "failed"

\* faulty variant: main starts the server right after the first pass
MainRun_StartsServer(env) ==
    /\ phase = "main"
    /\ InvokeRun(env, FALSE)
    /\ phase' = (IF pass'.panicked THEN "crashed" ELSE "schedule")
    /\ server' = (IF pass'.panicked THEN "stopped" ELSE served(keyFile', crtFile'))
    /\ UNCHANGED <<timer, shutdown, goroutineVars>>

\* main: configHandler.Run(certRenewalPeriod)
MainRun(env) ==
    /\ phase = "main"
    /\ InvokeRun(env, FALSE)
    /\ phase' = (IF pass'.panicked THEN "crashed" ELSE "schedule")
    /\ UNCHANGED <<timer, server, shutdown, goroutineVars>>

\* the Get of the scheduler's read of the expiration succeeds or fails
SchedulerEnvs == { [fails |-> {}], [fails |-> {"StartCertRenewalScheduler"}] }

\* faulty variant: without a readable expiration the ticker is set to a minute
StartCertRenewalScheduler_Guess(env) ==
    /\ phase \in {"schedule", "reschedule"}
    /\ expiry' = GetCertExpireDate(Ctx(secret, csr, keyFile, crtFile), env,
                                   "StartCertRenewalScheduler")
    /\ phase' = "waiting"
    /\ timer' = (IF expiry'.kind = "time"
                 THEN Timer(sTime(expiry', certRenewalPeriod)) ELSE Timer(1))
    /\ server' = (IF phase = "schedule" THEN served(keyFile, crtFile) ELSE server)
    /\ UNCHANGED <<pool, quota, req, resp, admissionVars>>
    /\ UNCHANGED <<secret, csr, keyFile, crtFile, certRenewalPeriod, pass, shutdown, goroutineVars>>

\* StartCertRenewalScheduler, called by main and by the goroutine after a
\* fire: without a readable expiration the process panics, as it does when
\* time.NewTicker is given a duration that is not positive; else the ticker
\* is set; main then starts the server (go serviceHandler.Run())
StartCertRenewalScheduler(env) ==
    /\ phase \in {"schedule", "reschedule"}
    /\ expiry' = GetCertExpireDate(Ctx(secret, csr, keyFile, crtFile), env,
                                   "StartCertRenewalScheduler")
    /\ phase' = (IF Armed(expiry', certRenewalPeriod) THEN "waiting" ELSE "crashed")
    /\ timer' = (IF Armed(expiry', certRenewalPeriod)
                 THEN Timer(sTime(expiry', certRenewalPeriod)) ELSE NoTimer)
    /\ server' = (IF ~Armed(expiry', certRenewalPeriod) THEN "stopped"
                  ELSE IF phase = "schedule" THEN served(keyFile, crtFile)
                  ELSE server)
    /\ UNCHANGED <<pool, quota, req, resp, admissionVars>>
    /\ UNCHANGED <<secret, csr, keyFile, crtFile, certRenewalPeriod, pass, shutdown, goroutineVars>>

\* one clock unit passes while the ticker runs
Tick ==
    /\ phase = "waiting"
    /\ timer.armed /\ timer.left > 0
    /\ timer' = [timer EXCEPT !.left = @ - 1]
    /\ secret' = [secret EXCEPT !.crt = aged(@)]
    /\ csr' = [csr EXCEPT !.crt = aged(@)]
    /\ crtFile' = aged(crtFile)
    /\ pass' = [pass EXCEPT !.aged = TRUE]
    /\ UNCHANGED <<pool, quota, req, resp, admissionVars>>
    /\ UNCHANGED <<keyFile, certRenewalPeriod, expiry, phase, server, shutdown, goroutineVars>>

\* case <-ticker.C: the goroutine receives the tick
TimerFires ==
    /\ phase = "waiting"
    /\ timer.armed /\ timer.left = 0
    /\ phase' = "fired"
    /\ UNCHANGED <<pool, quota, req, resp, admissionVars, identityVars>>
    /\ UNCHANGED <<timer, server, shutdown, goroutineVars>>

\* cHandler.Run(certRenewalPeriod) in the goroutine
Renew(env) ==
    /\ phase = "fired"
    /\ InvokeRun(env, TRUE)
    /\ phase' = (IF pass'.panicked THEN "crashed" ELSE "renewed")
    /\ server' = (IF pass'.panicked THEN "stopped" ELSE server)
    /\ UNCHANGED <<timer, shutdown, goroutineVars>>

MsgStop == "Error stopping service during renewal"

\* faulty variant: the server is left alone when the pass renewed nothing
StopServer_OnlyIfRenewed(stopErr) ==
    /\ phase = "renewed"
    /\ server' = (IF Len(pass.calls) > 2 THEN "stopped" ELSE server)
    /\ pass' = (IF stopErr THEN [pass EXCEPT !.logged = Append(@, MsgStop)] ELSE pass)
    /\ phase' = "settling"
    /\ UNCHANGED <<pool, quota, req, resp, admissionVars, timer>>
    /\ UNCHANGED <<secret, csr, keyFile, crtFile, certRenewalPeriod, expiry, shutdown, goroutineVars>>

\* after the pass: sHandler.Stop(), its error logged; Shutdown has closed
\* the listeners when it returns, with an error or without
StopServer(stopErr) ==
    /\ phase = "renewed"
    /\ server' = "stopped"
    /\ pass' = (IF stopErr THEN [pass EXCEPT !.logged = Append(@, MsgStop)] ELSE pass)
    /\ phase' = "settling"
    /\ UNCHANGED <<pool, quota, req, resp, admissionVars, timer>>
    /\ UNCHANGED <<secret, csr, keyFile, crtFile, certRenewalPeriod, expiry, shutdown, goroutineVars>>

\* the sleep, then go sHandler.Run()
RestartServer ==
    /\ phase = "settling"
    /\ server' = served(keyFile, crtFile)
    /\ phase' = "restarted"
    /\ UNCHANGED <<pool, quota, req, resp, admissionVars, identityVars, timer, shutdown, goroutineVars>>

\* ticker.Stop()
StopTicker ==
    /\ phase = "restarted"
    /\ timer' = NoTimer
    /\ phase' = "reschedule"
    /\ UNCHANGED <<pool, quota, req, resp, admissionVars, identityVars, server, shutdown, goroutineVars>>

\* the steps of main up to its wait for a signal, and of the goroutine
NextCert ==
    \/ \E env \in Envs : MainRun(env)
    \/ \E env \in SchedulerEnvs : StartCertRenewalScheduler(env)
    \/ Tick
    \/ TimerFires
    \/ \E env \in Envs : Renew(env)
    \/ \E stopErr \in BOOLEAN : StopServer(stopErr)
    \/ RestartServer
    \/ StopTicker

SpecCert == InitCert /\ [][NextCert]_vars

\* the ticker runs, and the goroutine, once a pass has returned, goes on
SpecCertLive ==
    /\ SpecCert
    /\ WF_vars(Tick)
    /\ WF_vars(TimerFires)
    /\ WF_vars(\E stopErr \in BOOLEAN : StopServer(stopErr))
    /\ WF_vars(RestartServer)
    /\ WF_vars(StopTicker)
    /\ WF_vars(\E env \in SchedulerEnvs : StartCertRenewalScheduler(env))

InitShutdown ==
    /\ InitCert
    /\ secret \in {NoSecret, Secret(0, X509(0, MaxValidity * MinuteParts))}
    /\ csr = NoCSR
    /\ certRenewalPeriod = 1

\* main has reached its wait for a signal
MainWaits == phase \notin {"main", "schedule", "crashed"}

\* <-sig, the log line, cancel()
Signal ==
    /\ shutdown = "no"
    /\ MainWaits
    /\ shutdown' = "signalled"
    /\ UNCHANGED <<pool, quota, req, resp, admissionVars, identityVars>>
    /\ UNCHANGED <<phase, timer, server, goroutineVars>>

\* os.Exit(0): the process ends with its goroutines, its ticker as it was
Exit ==
    /\ shutdown = "signalled"
    /\ shutdown' = "exited"
    /\ server' = "stopped"
    /\ UNCHANGED <<pool, quota, req, resp, admissionVars, identityVars>>
    /\ UNCHANGED <<phase, timer, goroutineVars>>

NextShutdown ==
    \/ shutdown # "exited" /\ NextCert
    \/ Signal
    \/ Exit

SpecShutdown == InitShutdown /\ [][NextShutdown]_vars

\* C29: once the signal is received no fire begins, and when the process
\* exits the ticker has been stopped.
C29_TickerStoppedOnShutdown ==
    [][/\ (shutdown = "signalled" => ~(phase = "waiting" /\ phase' = "fired"))
       /\ (shutdown' = "exited" => ~timer.armed)]_vars

(***************************************************************************)
(* The first call of StartCertRenewalScheduler under every window that     *)
(* parseAppEnv hands over and every expiration the stored certificate may  *)
(* have.                                                                   *)
(***************************************************************************)
\* parseAppEnv: strconv.ParseInt gives any int64; an error and zero are
\* replaced by the default, which is not zero
AcceptedWindows == (MinInt..MaxInt) \ {0}

\* expireDate.Sub(currentDate): a Duration, saturated at its two ends
Differences == CertLefts \cup {MinInt, MaxInt}

\* main has made the first pass and is about to call the scheduler
InitArm ==
    /\ NoServices
    /\ secret \in { Secret(0, X509(0, l)) : l \in Differences }
    /\ csr = NoCSR
    /\ keyFile = secret.key
    /\ crtFile = secret.crt
    /\ certRenewalPeriod \in AcceptedWindows
    /\ pass = NoPass
    /\ expiry = NoExpiry
    /\ phase = "schedule"
    /\ timer = NoTimer
    /\ server = "stopped"
    /\ shutdown = "no"
    /\ tasks = << >>
    /\ tickers = << >>

NextArm == \E env \in SchedulerEnvs : StartCertRenewalScheduler(env)

SpecArm == InitArm /\ [][NextArm]_vars

\* the step is a call of StartCertRenewalScheduler
SchedulerStep == phase \in {"schedule", "reschedule"} /\ phase' # phase

\* C37: for every window handed over by parseAppEnv and every expiration
\* read, the duration given to the ticker is positive: the ticker is set
\* and the process goes on.
C37_PositiveDuration ==
    [][SchedulerStep /\ expiry'.kind = "time" =>
          phase' = "waiting" /\ timer'.armed /\ timer'.left > 0]_vars

(***************************************************************************)
(* The goroutines of the scheduler.  Every call of                         *)
(* StartCertRenewalScheduler stores a new ticker in the package variable   *)
(* `ticker` and starts a goroutine; the goroutine that made the call       *)
(* returns to its loop.  Each select waits on the channel of the ticker    *)
(* that `ticker` held when the select was entered.  The variable is read   *)
(* and written without synchronisation: a read yields any ticker from the  *)
(* last one the goroutine is known to have observed up to the latest.      *)
(* What a pass and a restart do to the identity and the server is followed *)
(* in SpecCert; here, which goroutine executes them and when.              *)
(***************************************************************************)
\* how many tickers are created before the scheduler is left alone
MaxTickers == 3

\* time.NewTicker: running, its channel (of capacity 1) empty
NewTicker == [running |-> TRUE, tick |-> FALSE]

\* the goroutine started by the call that created ticker number seen
Task(seen) == [at |-> "loop", on |-> 0, seen |-> seen]

\* the package variable `ticker`: the ticker created last
latest == Len(tickers)

\* the tickers a read of `ticker` by goroutine g can yield
readable(g) == tasks[g].seen .. latest

\* main has called StartCertRenewalScheduler
InitTasks ==
    /\ NoServices
    /\ CertIdle_Fields
    /\ tickers = <<NewTicker>>
    /\ tasks = <<Task(1)>>

\* what the goroutines of the scheduler leave alone in this specification
tasksFrame ==
    <<pool, quota, req, resp, admissionVars, identityVars, phase, timer, server, shutdown>>

\* for { select { case <-ticker.C: the select is entered on ticker h
Select(g, h) ==
    /\ tasks[g].at = "loop"
    /\ h \in readable(g)
    /\ tasks' = [tasks EXCEPT ![g].at = "select", ![g].on = h, ![g].seen = h]
    /\ UNCHANGED tickers
    /\ UNCHANGED tasksFrame

\* the period of ticker t has passed: a tick is sent unless one is waiting
TickerTicks(t) ==
    /\ tickers[t].running
    /\ ~tickers[t].tick
    /\ tickers' = [tickers EXCEPT ![t].tick = TRUE]
    /\ UNCHANGED tasks
    /\ UNCHANGED tasksFrame

\* case <-ticker.C: goroutine g receives the tick
Receive(g) ==
    /\ tasks[g].at = "select"
    /\ tickers[tasks[g].on].tick
    /\ tickers' = [tickers EXCEPT ![tasks[g].on].tick = FALSE]
    /\ tasks' = [tasks EXCEPT ![g].at = "cycle"]
    /\ UNCHANGED tasksFrame

\* cHandler.Run, sHandler.Stop, the sleep, go sHandler.Run
RenewAndRestart(g) ==
    /\ tasks[g].at = "cycle"
    /\ tasks' = [tasks EXCEPT ![g].at = "restarted"]
    /\ UNCHANGED tickers
    /\ UNCHANGED tasksFrame

\* ticker.Stop() on the ticker h that the goroutine reads from `ticker`
StopsTicker(g, h) ==
    /\ tasks[g].at = "restarted"
    /\ h \in readable(g)
    /\ tickers' = [tickers EXCEPT ![h].running = FALSE]
    /\ tasks' = [tasks EXCEPT ![g].at = "reschedule", ![g].seen = h]
    /\ UNCHANGED tasksFrame

\* StartCertRenewalScheduler called by goroutine g: with a readable
\* expiration a new ticker and a new goroutine, and g returns to its loop;
\* without, the panic ends the process
Reschedule(g, canRead) ==
    /\ tasks[g].at = "reschedule"
    /\ latest < MaxTickers
    /\ IF canRead
       THEN /\ tickers' = Append(tickers, NewTicker)
            /\ tasks' = Append([tasks EXCEPT ![g].at = "loop", ![g].seen = latest + 1],
                               Task(latest + 1))
       ELSE /\ tasks' = [o \in DOMAIN tasks |-> [tasks[o] EXCEPT !.at = "crashed"]]
            /\ tickers' = [t \in DOMAIN tickers |-> [running |-> FALSE, tick |-> FALSE]]
    /\ UNCHANGED tasksFrame

NextTasks ==
    \/ \E g \in DOMAIN tasks : \E h \in DOMAIN tickers : Select(g, h)
    \/ \E t \in DOMAIN tickers : TickerTicks(t)
    \/ \E g \in DOMAIN tasks : Receive(g)
    \/ \E g \in DOMAIN tasks : RenewAndRestart(g)
    \/ \E g \in DOMAIN tasks : \E h \in DOMAIN tickers : StopsTicker(g, h)
    \/ \E g \in DOMAIN tasks : \E canRead \in BOOLEAN : Reschedule(g, canRead)

SpecTasks == InitTasks /\ [][NextTasks]_vars

\* goroutine g is between the receipt of a tick and its return to the loop
InCycle(g) == tasks[g].at \in {"cycle", "restarted", "reschedule"}

\* C32: at most one goroutine of the scheduler is between the receipt of a
\* tick and its return to the loop, that is, at most one cycle of renewal,
\* stop, restart and reschedule is in progress at any time (that one tick
\* is received by one goroutine only is what a channel receive gives).
C32_OneCycleAtATime == Cardinality({g \in DOMAIN tasks : InCycle(g)}) <= 1

(***************************************************************************)
(* Properties of Handler.Run.                                              *)
(***************************************************************************)
\* the step is a call of Run
RunStep == pass'.seq # pass.seq

\* the calls of cs made on the secret or on the CSR
ClusterOps(cs) == { i \in 1..Len(cs) : cs[i].object \in {"secret", "csr"} }

\* cs holds a successful call of verb on object
Did(cs, verb, object) == \E i \in 1..Len(cs) : cs[i] = Op(verb, object, TRUE)

\* the stored certificate is not due for renewal
StoredNotDue ==
    secret.exists /\ secret.key # NilKey /\ secret.crt.kind = "x509" =>
        minutesLeft(secret.crt) >= certRenewalPeriod

\* an identity is stored and its remaining validity is not below the window
StoredFresh ==
    /\ secret.exists
    /\ secret.key # NilKey
    /\ secret.crt.kind = "x509"
    /\ minutesLeft(secret.crt) >= certRenewalPeriod

\* the call changes neither the cluster nor the files and makes no call on
\* the secret or the CSR
SecondCallIdle ==
    /\ ClusterOps(pass'.calls) = {}
    /\ secret' = secret
    /\ keyFile' = keyFile
    /\ crtFile' = crtFile

\* C14 as stated: a call of Run that follows, with no time between, a call
\* that met no failure, and meets none itself, makes no create or delete on
\* the secret or the CSR and leaves the stored identity and the files as the
\* first call left them.
C14_RunIdempotent ==
    [][RunStep /\ pass'.again /\ pass'.clean => SecondCallIdle]_vars

\* C14 amended: the same, when the identity the first call left is not due
\* for renewal under the window.
C14_RunIdempotentWhenNotDue ==
    [][RunStep /\ pass'.again /\ pass'.clean /\ StoredNotDue => SecondCallIdle]_vars

C14_Witness ==
    /\ pass.again /\ pass.clean /\ pass.path = "fresh"
    /\ secret.exists /\ secret.crt.kind = "x509"
    /\ keyFile = secret.key /\ crtFile = secret.crt
    /\ Len(pass.calls) = 2

\* C15: when an identity is stored and its remaining validity is not below
\* the window, a call of Run makes no call on the secret or the CSR and
\* leaves both as they were.
C15_FreshIdentityUntouched ==
    [][RunStep /\ StoredFresh =>
          /\ ClusterOps(pass'.calls) = {}
          /\ secret' = secret
          /\ csr' = csr]_vars

\* C16: a secret that a pass created holds a private key and an issued
\* certificate.
C16_NoPartialIdentity ==
    Did(pass.calls, "create", "secret") =>
        secret.key # NilKey /\ secret.crt.kind = "x509"

\* the secret holds the key of one identity and the certificate of another
Mixed(s) ==
    s.exists /\ s.key # NilKey /\ s.crt.kind = "x509" /\ s.crt.key # s.key

\* cs holds a successful delete of the secret before a successful create
DeleteThenCreate(cs) ==
    \E i, j \in 1..Len(cs) :
        /\ i < j
        /\ cs[i] = Op("delete", "secret", TRUE)
        /\ cs[j] = Op("create", "secret", TRUE)

\* C17: no call of Run updates the secret; a stored secret changes only by a
\* delete, and is replaced only by a delete followed by a create; the secret
\* never holds the key of one identity with the certificate of another.
C17_ReplacedNeverPatched ==
    [][RunStep =>
          /\ \A i \in 1..Len(pass'.calls) : pass'.calls[i].verb # "update"
          /\ (secret.exists /\ secret' # secret =>
                  Did(pass'.calls, "delete", "secret"))
          /\ (secret.exists /\ secret' # secret /\ secret'.exists =>
                  DeleteThenCreate(pass'.calls))
          /\ ~Mixed(secret')]_vars

C17_Witness ==
    /\ pass.path = "renew"
    /\ DeleteThenCreate(pass.calls)
    /\ secret.exists /\ secret.crt.kind = "x509"
    /\ secret.key # 0 /\ secret.crt.key = secret.key

\* C18: every pass reaches the write of the files and does not crash.
C18_EveryPassWrites == pass.ran => pass.writeTried /\ ~pass.panicked

\* C19: a read of the expiration gives a time or an error, never a crash.
C19_ExpirationOrError == expiry.kind \in {"none", "time", "error"}

(***************************************************************************)
(* Properties of the renewal and of the CSR exchange.                      *)
(***************************************************************************)
\* an identity is stored and the floor of its remaining minutes is below
\* the window
StoredDue ==
    /\ secret.exists /\ secret.key # NilKey /\ secret.crt.kind = "x509"
    /\ (secret.crt.left \div MinuteParts) < certRenewalPeriod

IsClusterOp(o) == o.object \in {"secret", "csr"}

\* the calls of cs on the secret and the CSR, in their order, as verb and
\* object
Steps(cs) ==
    [ i \in 1..Len(SelectSeq(cs, IsClusterOp)) |->
          <<SelectSeq(cs, IsClusterOp)[i].verb, SelectSeq(cs, IsClusterOp)[i].object>> ]

IsPrefix(a, b) == Len(a) <= Len(b) /\ SubSeq(b, 1, Len(a)) = a

RenewalSteps ==
    << <<"create", "csr">>, <<"approve", "csr">>,
       <<"delete", "secret">>, <<"create", "secret">> >>

\* C23: when an identity is stored and due, the calls of the pass follow the
\* order of a renewal - delete of the stale CSR if there is one, create and
\* approve of the CSR, delete of the old secret, create of the new - and the
\* old secret is deleted only when the CSR carries a signed certificate.
C23_RenewalInOrder ==
    [][RunStep /\ StoredDue =>
          /\ \/ IsPrefix(Steps(pass'.calls), RenewalSteps)
             \/ IsPrefix(Steps(pass'.calls), << <<"delete", "csr">> >> \o RenewalSteps)
          /\ (Did(pass'.calls, "delete", "secret") =>
                  csr'.exists /\ csr'.crt.kind = "x509")]_vars

\* C24: when the exchange reported success (the pass got a pair with a key),
\* the pair holds an issued certificate.
C24_SuccessMeansSigned ==
    pass.tlsPair.key # NilKey => pass.tlsPair.crt.kind = "x509"

\* C25: when a pass has returned, no CSR is left in the cluster.
C25_NoCSRAfterPass == pass.ran /\ ~pass.panicked => ~csr.exists

\* C26: a pass that finds a CSR issues a create of the CSR only after it has
\* deleted the one it found.
C26_StaleDeletedBeforeCreate ==
    [][RunStep /\ csr.exists =>
          \A i \in 1..Len(pass'.calls) :
              pass'.calls[i].verb = "create" /\ pass'.calls[i].object = "csr" =>
                  \E j \in 1..(i - 1) : pass'.calls[j] = Op("delete", "csr", TRUE)]_vars


(***************************************************************************)
(* Properties of the renewal scheduler.                                    *)
(***************************************************************************)
\* C21: when StartCertRenewalScheduler, called at startup or after a fire,
\* cannot read the expiration, the process terminates and no ticker is set.
C21_UnreadableIsFatal ==
    [][SchedulerStep /\ expiry'.kind # "time" =>
          phase' = "crashed" /\ ~timer'.armed /\ server' = "stopped"]_vars

C21_Witness ==
    /\ phase = "crashed" /\ expiry.kind = "error" /\ ~timer.armed
    /\ pass.byTimer /\ ~pass.panicked

AtLeastOne(n) == IF n < 1 THEN 1 ELSE n

\* whole minutes up to the expiration read: rounded down, and rounded
\* toward zero
FloorMinutes == expiry'.left \div MinuteParts
WholeMinutes ==
    IF expiry'.left >= 0 THEN expiry'.left \div MinuteParts
    ELSE -((-expiry'.left) \div MinuteParts)

StoredExpiry == expireDate(getTLSDataFromSecret(secret))

\* C28: a fire is followed, in this order, by the pass, the stop of the
\* server, its restart, the stop of the fired ticker, and the setting of a
\* ticker from the certificate stored then; the server is stopped and
\* started again whatever the pass did and whatever the stop returned.
C28_FireSequence ==
    [][/\ (phase = "fired" => RunStep /\ phase' = "renewed" /\ timer' = timer /\ server' = server)
       /\ (phase = "renewed" =>
               server' = "stopped" /\ phase' = "settling" /\ timer' = timer /\ secret' = secret)
       /\ (phase = "settling" =>
               server' # "stopped" /\ phase' = "restarted" /\ timer' = timer /\ secret' = secret)
       /\ (phase = "restarted" =>
               ~timer'.armed /\ phase' = "reschedule" /\ server' = server /\ secret' = secret)
       /\ (phase = "reschedule" /\ phase' = "waiting" =>
               /\ StoredExpiry.kind = "time"
               /\ timer' = Timer(sTime(StoredExpiry, certRenewalPeriod))
               /\ server' = server)
       /\ (server' = "stopped" /\ server # "stopped" =>
               phase = "renewed" \/ phase' = "crashed")]_vars

\* a fire whose renewal failed and whose stop returned an error has been
\* followed by the restart and the stop of the ticker
C28_Witness ==
    /\ phase = "reschedule" /\ pass.byTimer
    /\ ~pass.clean /\ ~Did(pass.calls, "create", "secret")
    /\ \E i \in 1..Len(pass.logged) : pass.logged[i] = MsgStop
    /\ server = "running" /\ ~timer.armed

\* a secret with a key and a certificate is stored
StoredIdentity == secret.exists /\ secret.key # NilKey /\ secret.crt.kind = "x509"

\* C30: at startup the server is started only after the first pass and only
\* when the scheduler has read the expiration of a stored certificate; when
\* the first pass leaves no identity stored, the process terminates with the
\* server never started.
C30_NoServerWithoutIdentity ==
    [][/\ (phase = "main" => server' = "stopped")
       /\ (phase = "schedule" /\ server' # "stopped" =>
               /\ pass.ran /\ ~pass.byTimer
               /\ expiry'.kind = "time"
               /\ StoredIdentity)
       /\ (phase = "schedule" /\ ~StoredIdentity =>
               phase' = "crashed" /\ server' = "stopped")]_vars

\* the first pass could not issue the identity and the process has
\* terminated with the server never started
C30_Witness ==
    /\ phase = "crashed" /\ server = "stopped"
    /\ pass.ran /\ ~pass.byTimer /\ pass.path = "first" /\ ~pass.clean
    /\ ~secret.exists

\* C39: a request without the project-name label, or with an empty one, is
\* never allowed, whatever the pool and the quota object are.
C39_NoProjectNeverAllowed == Done /\ req.project = "" => ~Allowed

\* a request without project passes every check on the pool and is denied
\* at the quota lookup, though a quota object with room is there
C39_Witness ==
    /\ Denied /\ req.project = "" /\ EarlierChecksPass
    /\ quota.getErr = "" /\ quota.decodes
    /\ PoolName \in DOMAIN quota.FloatingIPQuota
    /\ quota.FloatingIPQuota[PoolName] > 0
    /\ PoolName \notin DOMAIN quota.Used
    /\ resp.Message = MsgQuotaGet("")

(***************************************************************************)
(* A pool is submitted, validated and, when allowed, stored; a FloatingIP  *)
(* is then validated against the stored pool.                              *)
(***************************************************************************)
\* no pool of the name is stored
PoolNotFound == [NoPool EXCEPT !.getErr = "NotFound"]

\* the pool object the cluster stores for the allowed spec fp, with the
\* status its controller keeps
StoredPool(fp, allocated, available) ==
    [ getErr |-> "", decodes |-> TRUE, hasIPConfig |-> fp.hasIPConfig,
      Subnet |-> fp.Subnet, Start |-> fp.Start, End |-> fp.End,
      Exclude |-> fp.Exclude, Allocated |-> allocated, Available |-> available ]

InitConsistent ==
    /\ pool = PoolNotFound
    /\ quota = FixtureQuota(0)
    /\ req = NoRequest
    /\ resp = NoResponse
    /\ AdmissionIdle
    /\ CertIdle

\* validateFloatingIPPool on the submitted fp; the API server stores the
\* pool when the webhook allows it
AdmitPool(fp, allocated, available) ==
    /\ fipPool = NoFipPool
    /\ fipPool' = fp
    /\ resp' = validateFloatingIPPool(fp)
    /\ pool' = (IF resp' = Allow THEN StoredPool(fp, allocated, available) ELSE pool)
    /\ UNCHANGED <<quota, req, httpReq, httpResp, calls, inflight>>
    /\ UNCHANGED <<identityVars, schedulerVars>>

\* validateFloatingIP for request r against the stored pool
ValidateAgainstStored(r) ==
    /\ pool # PoolNotFound
    /\ req = NoRequest
    /\ req' = r
    /\ resp' = validateFloatingIP(pool, quota, r)
    /\ UNCHANGED <<pool, quota, admissionVars, identityVars, schedulerVars>>

NextConsistent ==
    \/ /\ fipPool = NoFipPool
       /\ \E fp \in FipPools, allocated \in MapsOn(AllocatedIPs, {Owner}),
             available \in {0, MaxAvail} : AdmitPool(fp, allocated, available)
    \/ \E r \in Requests : ValidateAgainstStored(r)

SpecConsistent == InitConsistent /\ [][NextConsistent]_vars

\* the denials of validateFloatingIP that blame the pool's configuration
ConfigurationErrors == { MsgBadSubnet, MsgBadStart, MsgBadEnd }

\* C38: a FloatingIP validated against a pool that validateFloatingIPPool
\* allowed is never denied for an invalid subnet, start or end
\* configuration, and a requested IP that is allowed lies in the subnet and
\* in [start, end] by the tests of validateFloatingIPPool.
C38_ValidatorsAgree ==
    req # NoRequest =>
        /\ Answered
        /\ resp.Message \notin ConfigurationErrors
        /\ (Allowed /\ req.hasIPAddr =>
                /\ Contains(ParseSubnet(fipPool.Subnet), Addr(req.IPAddr))
                /\ ~excludedOutsideRange(Addr(req.IPAddr), Addr(fipPool.Start),
                                         Addr(fipPool.End)))

\* a requested IP has been allowed against a stored pool with a range of
\* several addresses and an exclude list
C38_Witness ==
    /\ req # NoRequest /\ Allowed /\ req.hasIPAddr
    /\ fipPool.Start # fipPool.End
    /\ Len(fipPool.Exclude) > 0

(***************************************************************************)
(* The order of the checks of validateFloatingIPPool.                      *)
(***************************************************************************)
\* s is an address literal inside the subnet, the subnet being a CIDR
InPoolSubnet(s) == PoolSubnet.ok /\ ParsesInSubnet(s)

\* the three checks of the k-th excluded IP
ExcludeChecks(k) ==
    LET ex == fipPool.Exclude[k] IN
    << [fails |-> Addr(ex) = NilIP, msg |-> MsgPoolExcludeFormat(ex)],
       [fails |-> ~InPoolSubnet(ex),
        msg |-> MsgPoolExcludeNotInSubnet(ex, fipPool.Subnet)],
       [fails |-> ~InPoolRange(ex),
        msg |-> MsgPoolExcludeNotInRange(ex, fipPool.Start, fipPool.End)] >>

RECURSIVE ExcludeChecksFrom(_)
ExcludeChecksFrom(k) ==
    IF k > Len(fipPool.Exclude) THEN << >>
    ELSE ExcludeChecks(k) \o ExcludeChecksFrom(k + 1)

\* the checks of a pool spec in the documented order
PoolOrderedChecks ==
    << [fails |-> ~PoolSubnet.ok, msg |-> MsgPoolSubnetFormat(fipPool.Subnet)],
       [fails |-> Addr(fipPool.Start) = NilIP,
        msg |-> MsgPoolStartFormat(fipPool.Start)],
       [fails |-> ~InPoolSubnet(fipPool.Start),
        msg |-> MsgPoolStartNotInSubnet(fipPool.Start, fipPool.Subnet)],
       [fails |-> Addr(fipPool.End) = NilIP,
        msg |-> MsgPoolEndFormat(fipPool.End)],
       [fails |-> ~InPoolSubnet(fipPool.End),
        msg |-> MsgPoolEndNotInSubnet(fipPool.End, fipPool.Subnet)],
       [fails |-> ~AddrLeq(Addr(fipPool.Start), Addr(fipPool.End)),
        msg |-> MsgPoolStartAfterEnd(fipPool.Start, fipPool.End)] >>
    \o ExcludeChecksFrom(1)

\* C31: validateFloatingIPPool reports the earliest failing check in the
\* order subnet parses, start parses, start in subnet, end parses, end in
\* subnet, start <= end, then per excluded IP in list order: parses, in
\* subnet, in [start, end]; it allows only when no check fails.
C31_PoolFirstFailureReported ==
    PoolValidated /\ fipPool.hasIPConfig =>
        LET k == FirstFailing(PoolOrderedChecks) IN
        IF k = 0 THEN resp = Allow ELSE resp = Deny(PoolOrderedChecks[k].msg)

\* an end address outside the subnet and two bad excluded IPs, the second
\* unparsable: the answer names the end address
C31_Witness ==
    /\ PoolValidated /\ Denied
    /\ InPoolSubnet(fipPool.Start) /\ Addr(fipPool.End) # NilIP
    /\ ~InPoolSubnet(fipPool.End)
    /\ Len(fipPool.Exclude) = 2
    /\ ~InPoolSubnet(fipPool.Exclude[1]) /\ Addr(fipPool.Exclude[2]) = NilIP
    /\ resp.Message = MsgPoolEndNotInSubnet(fipPool.End, fipPool.Subnet)

\* the ticker fires
FireStep == phase = "waiting" /\ phase' = "fired"

\* C33: under a window of at least one minute, when the ticker set by
\* StartCertRenewalScheduler fires, the whole minutes left to the stored
\* certificate are below the window, and the pass of the fire, when it reads
\* the expiration, takes the renewal branch; and when at least the window
\* was left as the ticker was set, the fire is not later than the
\* expiration.
C33_FireFindsDue ==
    [][/\ (FireStep /\ certRenewalPeriod >= 1 =>
               /\ StoredExpiry.kind = "time"
               /\ (StoredExpiry.left \div MinuteParts) < certRenewalPeriod
               /\ isDue(StoredExpiry, certRenewalPeriod)
               /\ ((expiry.left \div MinuteParts) >= certRenewalPeriod =>
                       StoredExpiry.left >= 0))
       /\ (phase = "fired" /\ RunStep /\ certRenewalPeriod >= 1
             /\ pass'.path \notin {"first", "panic"} /\ expiry'.kind = "time" =>
               pass'.path = "renew")]_vars

\* a ticker set with at least the window left has fired: less than the
\* window is left, and the certificate has not expired
C33_Witness ==
    /\ phase = "fired"
    /\ certRenewalPeriod = MaxWindow
    /\ expiry.kind = "time" /\ (expiry.left \div MinuteParts) >= certRenewalPeriod
    /\ StoredExpiry.kind = "time" /\ StoredExpiry.left >= 0
    /\ (StoredExpiry.left \div MinuteParts) < certRenewalPeriod

\* the errors of the CSR stages of a renewal
CSRStageErrors ==
    { "delete of the signing request failed",
      "error while creating signing request",
      "error while approving signing request",
      "error while getting the updated signing request" }

\* the pass p logged an error of a CSR stage
FailedAtCSRStage(p) == \E i \in 1..Len(p.logged) : p.logged[i] \in CSRStageErrors

\* C34: a renewal that fails at the delete of the stale CSR or at the
\* create, the approval or the read-back of the new one leaves the stored
\* secret as it was, and the two files are written from it.
C34_FailedExchangeKeepsSecret ==
    [][RunStep /\ StoredDue /\ pass'.path = "renew" /\ FailedAtCSRStage(pass') =>
          /\ secret' = secret
          /\ pass'.writeTried
          /\ keyFile' = secret.key
          /\ crtFile' = secret.crt]_vars

\* a renewal has failed at the approval: the due identity is still stored
\* and in the files, the unapproved CSR is left behind
C34_Witness ==
    /\ pass.ran /\ pass.path = "renew"
    /\ pass.logged = <<"error while approving signing request">>
    /\ StoredDue
    /\ keyFile = secret.key /\ crtFile = secret.crt
    /\ csr.exists /\ ~csr.approved

\* C35: a pass that starts with a secret stored ends with a secret stored.
C35_IdentityNeverLost ==
    [][RunStep /\ secret.exists /\ ~pass'.panicked => secret'.exists]_vars

\* a secret is stored whose expiration cannot be read
StoredUnreadable == secret.exists /\ StoredExpiry.kind # "time"

StoredDueNow == StoredIdentity /\ minutesLeft(secret.crt) < certRenewalPeriod

\* the pass of a fire has not replaced the secret
RenewalFailed ==
    pass.byTimer /\ pass.path = "renew" /\ ~Did(pass.calls, "create", "secret")

\* the pass p met no failure and replaced the secret
Replaced(p) == p.clean /\ Did(p.calls, "create", "secret")

====
